---- MODULE Spec2Model ----
(***************************************************************************)
(* A model of discord-bot-for-plex: the persisted board configuration      *)
(* (config.rs), the slash-command handlers that change it (discord.rs),    *)
(* the update loop that creates or edits the board message (main.rs), the  *)
(* endpoint resolver and the artwork cache of a Plex client (plex.rs).     *)
(*                                                                         *)
(* Each subsystem has its own specification over the shared variables:     *)
(*   SpecBoard     config + command handlers + update loop                 *)
(*   SpecResolver  find_working_url of one client                          *)
(*   SpecCache     enrich_artwork and the artwork cache of one client      *)
(*   SpecFanIn     the listeners, their forwarders, update_loop and the    *)
(*                 shutdown of main; SpecFanInLive adds the fairness of    *)
(*                 the scheduler                                           *)
(*   SpecRender    build_session_embeds and progress_bar                   *)
(*   SpecRestart   SpecBoard started with the Config of an earlier run     *)
(*   SpecListener  start_sse_listener of one client with its resolver;     *)
(*                 SpecListenerLive adds the fairness of the scheduler     *)
(*   SpecUpdate    update_sessions of one client with its enrichment       *)
(*   SpecOverlap   update_sessions of one client called by the listener    *)
(*                 and by a command at the same time                       *)
(*   SpecShutdownLive  the listeners, update_loop and main from the        *)
(*                 cancellation to "Shutdown complete";                    *)
(*                 SpecListenerShutdownLive is start_sse_listener alone    *)
(***************************************************************************)
EXTENDS Integers, Sequences, FiniteSets, TLC

(***************************************************************************)
(* Bounds of the model.                                                    *)
(***************************************************************************)
NumChannels == 2      \* Discord channels a command may name
MaxMsgs == 1          \* messages Discord creates before creates only fail
MaxWake == 1          \* unread wake-ups kept in the aggregate channel
NumHosts == 2         \* distinct endpoints the identity service may list
MaxConns == 2         \* connections listed for the server
TicksPerSec == 2      \* clock ticks in one second
MaxAdvances == 2      \* times the clock advances
Capacity == 2         \* slots of a broadcast channel (16 in the program)
MaxOffset == 60       \* largest view_offset of a progress bar
MaxDuration == 50     \* largest duration of a progress bar
MaxRendered == 2      \* sessions rendered at once
MaxServers == 2       \* clients named to build_session_embeds
MaxEvents == 2        \* events the listener receives
MaxFetched == 2       \* sessions in one answer of the server
MaxUpdates == 2       \* calls of update_sessions
MaxAnswers == 3       \* answers to overlapping update_sessions calls

\* plex.rs 18
CACHE_TTL_SECS == 3600

\* plex.rs 289
BAR_WIDTH == 10

\* The bits of an f64 significand (plex.rs 296).
Significand == 53

(***************************************************************************)
(* Option<T>: None is the empty sequence, Some(v) the one-element one.     *)
(***************************************************************************)
None == <<>>
Some(v) == <<v>>
IsSome(o) == o # <<>>
Unwrap(o) == o[1]

Channels == 1..NumChannels

VARIABLES
    config,      \* ConfigManager.config: the Config behind the RwLock
    disk,        \* the Config last written to config.json
    msgChannel,  \* Discord: msgChannel[m] = channel message m was created in
    deleted,     \* Discord: the messages that were deleted
    wakeups,     \* unread notifications in aggregate_rx
    cancelled,   \* the CancellationToken
    agg,         \* update_loop: its position, and of its latest tick the
                 \* Config read, the chat requests issued and the result
    chanCmd,     \* a /plex-channel handler in flight
    clearCmd,    \* a /plex-clear handler in flight
    active_url,  \* PlexClient.active_url of one client
    fw,          \* that client's find_working_url call: its position, and
                 \* of the latest call the cached url read, the discovery
                 \* queries made, the candidates and the probes made
    now,         \* the clock (Instant::now()), in ticks
    advances,    \* how often the clock advanced
    artwork_cache, \* PlexClient.artwork_cache: key -> Option<CacheEntry>
    stored,      \* history: per key, the value last stored and when
    enr,         \* the enrich_artwork call of each caller of update_sessions:
                 \* its position, its session's media_type, cache key and
                 \* art_url, and the catalog requests it issued
    sessions,    \* PlexClient.sessions of each client: its snapshot
    listener,    \* start_sse_listener of each client: its position and the
                 \* session list its update_sessions holds
    rx,          \* the forwarder of each client and its receiver of update_tx
    aggregate_rx, \* update_loop's receiver of aggregate_tx
    collect,     \* all_sessions and server_names of update_loop's tick
    news,        \* history: a snapshot was replaced or a notification sent,
                 \* with the forwarder subscribed, since the last tick began
    main,        \* main's position in its shutdown sequence
    render,      \* a call of progress_bar or build_session_embeds: its
                 \* arguments and its result
    sse,         \* start_sse_listener of the first client: its position, the
                 \* events it received, the update_sessions calls it made,
                 \* what its last step logged, and whether the server is up
    upd,         \* update_sessions of the first client: its position, the
                 \* list it fetched, the list it is enriching, how each
                 \* enrichment ended, and what its last step logged
    cycles       \* the update_sessions calls of the first client's two
                 \* callers: the answers the server gave, the latest of
                 \* them, and each call's position and list

boardVars == <<config, disk, msgChannel, deleted, wakeups, cancelled, agg,
               chanCmd, clearCmd>>

resolverVars == <<active_url, fw>>

cacheVars == <<now, advances, artwork_cache, stored, enr>>

fanVars == <<sessions, listener, rx, aggregate_rx, collect, news, main>>

vars == <<boardVars, resolverVars, cacheVars, fanVars, render, sse, upd, cycles>>

\* What the steps of one subsystem leave alone.
notBoard == <<resolverVars, cacheVars, fanVars, render, sse, upd, cycles>>
notResolver == <<boardVars, cacheVars, fanVars, render, sse, upd, cycles>>
notCache == <<boardVars, resolverVars, fanVars, render, sse, upd, cycles>>

(***************************************************************************)
(* config.rs                                                               *)
(***************************************************************************)
ConfigDefault == [session_channel_id |-> None, session_message_id |-> None]

\* Config::save: the file holds the new Config when the write succeeds.
save(cfg, ok, file) == IF ok THEN cfg ELSE file

set_session_channel_keeps_message(cfg, channel_id) ==
    [cfg EXCEPT !.session_channel_id = Some(channel_id)]

set_session_channel(cfg, channel_id) ==
    [cfg EXCEPT !.session_channel_id = Some(channel_id),
                !.session_message_id = None]

set_session_message(cfg, message_id) ==
    [cfg EXCEPT !.session_message_id = Some(message_id)]

clear_session(cfg) ==
    [cfg EXCEPT !.session_channel_id = None, !.session_message_id = None]

(***************************************************************************)
(* Discord, as the program sees it.                                        *)
(***************************************************************************)
\* A message can be edited or deleted through a channel when it was created
\* in that channel and still exists.
MessageIn(channel, m) ==
    /\ m \in 1..Len(msgChannel)
    /\ msgChannel[m] = channel
    /\ m \notin deleted

(***************************************************************************)
(* main.rs: update_loop                                                    *)
(***************************************************************************)
NoTick == [pc |-> "wait", cfg |-> ConfigDefault, writes |-> <<>>,
           result |-> "none"]

\* all_sessions and server_names outside a tick.
NoCollect == [all_sessions |-> <<>>, server_names |-> <<>>]

\* What a step that ends a tick leaves alone.
notTick == <<resolverVars, cacheVars, sessions, listener, rx, aggregate_rx,
             news, main, render, sse, upd, cycles>>

\* What one tick does with the Config it read (main.rs 86-92, 111, 125).
TickPlanAlwaysPublishes(cfg) ==
    IF IsSome(cfg.session_message_id) THEN "edit" ELSE "create"

TickPlanAlwaysCreates(cfg) ==
    IF cfg.session_channel_id = None THEN "skip" ELSE "create"

TickPlan(cfg) ==
    IF cfg.session_channel_id = None THEN "skip"
    ELSE IF IsSome(cfg.session_message_id) THEN "edit"
    ELSE "create"

\* The chat request a tick issues.
ChatRequest(kind, cfg) ==
    [kind |-> kind, channel |-> cfg.session_channel_id,
     message |-> IF kind = "edit" THEN cfg.session_message_id ELSE None]

\* aggregate_rx.recv() returned: read the Config, issue the chat request.
TickRecv ==
    /\ agg.pc = "wait"
    /\ wakeups > 0
    /\ wakeups' = wakeups - 1
    /\ LET cfg == config
           plan == TickPlan(cfg)
       IN IF plan = "skip"
          THEN agg' = [pc |-> "wait", cfg |-> cfg, writes |-> <<>>,
                       result |-> "skipped"]
          ELSE agg' = [pc |-> plan, cfg |-> cfg,
                       writes |-> <<ChatRequest(plan, cfg)>>,
                       result |-> "pending"]
    /\ UNCHANGED <<config, disk, msgChannel, deleted, cancelled, chanCmd,
                   clearCmd>>
    /\ UNCHANGED notBoard

\* The Config after an edit failed: the error is only logged.
EditFailedClearsMessage(cfg) == [cfg EXCEPT !.session_message_id = None]

EditFailed(cfg) == cfg

\* Where update_loop goes on when the chat request returned: both arms of
\* both matches (119-136) only log and fall through to the head of the loop.
AfterChatErrBreaks(result) == IF result = "err" THEN "stopped" ELSE "wait"

AfterChat(result) == "wait"

\* channel_id.edit_message(..) returned.
EditDone ==
    /\ agg.pc = "edit"
    /\ \E ok \in BOOLEAN :
        /\ ok => MessageIn(agg.cfg.session_channel_id,
                           Unwrap(agg.cfg.session_message_id))
        /\ config' = IF ok THEN config ELSE EditFailed(config)
        /\ agg' = [agg EXCEPT !.pc = AfterChat(IF ok THEN "ok" ELSE "err"),
                              !.result = IF ok THEN "ok" ELSE "err"]
    /\ UNCHANGED <<disk, msgChannel, deleted, wakeups, cancelled, chanCmd,
                   clearCmd>>
    /\ collect' = NoCollect
    /\ UNCHANGED notTick

\* channel_id.send_message(..) returned Ok(message): Discord created the
\* message, and its id is persisted.
CreateOk ==
    /\ agg.pc = "create"
    /\ Len(msgChannel) < MaxMsgs
    /\ LET id == Len(msgChannel) + 1
       IN /\ msgChannel' = Append(msgChannel, agg.cfg.session_channel_id)
          /\ \E saved \in BOOLEAN :
              /\ config' = set_session_message(config, id)
              /\ disk' = save(config', saved, disk)
    /\ agg' = [agg EXCEPT !.pc = AfterChat("ok"), !.result = "ok"]
    /\ UNCHANGED <<deleted, wakeups, cancelled, chanCmd, clearCmd>>
    /\ collect' = NoCollect
    /\ UNCHANGED notTick

\* channel_id.send_message(..) returned Err.
CreateErr ==
    /\ agg.pc = "create"
    /\ agg' = [agg EXCEPT !.pc = AfterChat("err"), !.result = "err"]
    /\ UNCHANGED <<config, disk, msgChannel, deleted, wakeups, cancelled,
                   chanCmd, clearCmd>>
    /\ collect' = NoCollect
    /\ UNCHANGED notTick

\* cancel.cancelled() won the select.
UpdateLoopShutdown ==
    /\ agg.pc = "wait"
    /\ cancelled
    /\ agg' = [agg EXCEPT !.pc = "stopped"]
    /\ UNCHANGED <<config, disk, msgChannel, deleted, wakeups, cancelled,
                   chanCmd, clearCmd>>
    /\ UNCHANGED notBoard

\* main: cancel.cancel() after ctrl-c or a gateway error.
Cancel ==
    /\ ~cancelled
    /\ cancelled' = TRUE
    /\ UNCHANGED <<config, disk, msgChannel, deleted, wakeups, agg, chanCmd,
                   clearCmd>>
    /\ UNCHANGED notBoard

\* A source emitted a changed notification and its forwarder passed it on.
Notify ==
    /\ wakeups < MaxWake
    /\ wakeups' = wakeups + 1
    /\ UNCHANGED <<config, disk, msgChannel, deleted, cancelled, agg, chanCmd,
                   clearCmd>>
    /\ UNCHANGED notBoard

(***************************************************************************)
(* discord.rs: the command handlers                                        *)
(***************************************************************************)
IdleChan == [pc |-> "idle", channel |-> None, before |-> ConfigDefault]
IdleClear == [pc |-> "idle", channel |-> None, message |-> None]

\* handle_set_channel up to the return of set_session_channel; the handler
\* remembers the Config it replaced.
HandleSetChannel ==
    /\ chanCmd.pc = "idle"
    /\ \E id \in Channels, saved \in BOOLEAN :
        /\ config' = set_session_channel(config, id)
        /\ disk' = save(config', saved, disk)
        /\ chanCmd' = [pc |-> "trigger", channel |-> Some(id),
                       before |-> config]
    /\ UNCHANGED <<msgChannel, deleted, wakeups, cancelled, agg, clearCmd>>
    /\ UNCHANGED notBoard

\* trigger_all_updates: the sources poll; a poll that succeeds emits.
TriggerAllUpdates ==
    /\ chanCmd.pc = "trigger"
    /\ chanCmd' = IdleChan
    /\ \E emitted \in BOOLEAN :
        wakeups' = IF emitted /\ wakeups < MaxWake THEN wakeups + 1 ELSE wakeups
    /\ UNCHANGED <<config, disk, msgChannel, deleted, cancelled, agg, clearCmd>>
    /\ UNCHANGED notBoard

\* handle_clear up to the delete request (or its early return).
HandleClear ==
    /\ clearCmd.pc = "idle"
    /\ LET cfg == config
       IN IF IsSome(cfg.session_channel_id) /\ IsSome(cfg.session_message_id)
          THEN clearCmd' = [pc |-> "delete",
                            channel |-> cfg.session_channel_id,
                            message |-> cfg.session_message_id]
          ELSE clearCmd' = IdleClear
    /\ UNCHANGED <<config, disk, msgChannel, deleted, wakeups, cancelled, agg,
                   chanCmd>>
    /\ UNCHANGED notBoard

\* channel.delete_message(..) returned: both arms call clear_session.
ClearDeleteDone ==
    /\ clearCmd.pc = "delete"
    /\ \E ok \in BOOLEAN, saved \in BOOLEAN :
        /\ ok => MessageIn(clearCmd.channel, Unwrap(clearCmd.message))
        /\ deleted' = IF ok THEN deleted \cup {Unwrap(clearCmd.message)}
                      ELSE deleted
        /\ config' = clear_session(config)
        /\ disk' = save(config', saved, disk)
    /\ clearCmd' = IdleClear
    /\ UNCHANGED <<msgChannel, wakeups, cancelled, agg, chanCmd>>
    /\ UNCHANGED notBoard

(***************************************************************************)
(* plex.rs: PlexAuth::get_server_urls                                      *)
(***************************************************************************)
\* A uri is a host and the number of '/' that end it; a connection is a uri
\* and the local flag of the resource listing.
Hosts == 1..NumHosts
Uris == [host : Hosts, slashes : {0, 1}]
Connections == [uri : Uris, local : BOOLEAN]

RECURSIVE SeqsUpTo(_, _)
SeqsUpTo(S, n) ==
    IF n = 0 THEN {<<>>}
    ELSE LET shorter == SeqsUpTo(S, n - 1)
         IN shorter \cup {Append(q, x) : q \in {r \in shorter : Len(r) = n - 1},
                                         x \in S}

\* What the resource listing answers: the request failed, or the server is
\* not among the resources, or the server's connections.
Listings ==
    {[found |-> FALSE, connections |-> <<>>]} \cup
    {[found |-> TRUE, connections |-> cs] : cs \in SeqsUpTo(Connections, MaxConns)}

\* c.uri.trim_end_matches('/')
trim_end_matches(uri) == [uri EXCEPT !.slashes = 0]

MapTrim(cs) == [i \in 1..Len(cs) |-> trim_end_matches(cs[i].uri)]

IsLocal(c) == c.local
NotLocal(c) == ~c.local

get_server_urls_listed_order(listing) ==
    IF ~listing.found THEN <<>> ELSE MapTrim(listing.connections)

get_server_urls(listing) ==
    IF ~listing.found THEN <<>>
    ELSE MapTrim(SelectSeq(listing.connections, NotLocal))
            \o MapTrim(SelectSeq(listing.connections, IsLocal))

(***************************************************************************)
(* plex.rs: PlexClient::find_working_url                                   *)
(***************************************************************************)
IdleFw == [pc |-> "idle", cached |-> None, queries |-> 0,
           listing |-> [found |-> FALSE, connections |-> <<>>],
           urls |-> <<>>, probes |-> <<>>, result |-> None]

\* After the probe of the cached url (382-387).
AfterCachedProbeTrustsCache(ok) == "return"

AfterCachedProbeNeverReturns(ok) == "discover"

AfterCachedProbe(ok) == IF ok THEN "return" ELSE "discover"

\* find_working_url is called (by start_sse_listener): with a cached url its
\* probe is sent, without one the resource listing is requested.
FindWorkingUrl ==
    /\ fw.pc \in {"idle", "done"}
    /\ fw' = [IdleFw EXCEPT
                !.pc = IF IsSome(active_url) THEN "probe_cached" ELSE "discover",
                !.cached = active_url]
    /\ UNCHANGED active_url
    /\ UNCHANGED notResolver

\* try_url(cached) returned.
CachedProbeDone ==
    /\ fw.pc = "probe_cached"
    /\ \E ok \in BOOLEAN :
        LET probed == Append(fw.probes, [url |-> Unwrap(fw.cached), ok |-> ok])
        IN IF AfterCachedProbe(ok) = "return"
           THEN fw' = [fw EXCEPT !.pc = "done", !.probes = probed,
                                 !.result = fw.cached]
           ELSE fw' = [fw EXCEPT !.pc = "discover", !.probes = probed]
    /\ UNCHANGED active_url
    /\ UNCHANGED notResolver

\* get_server_urls returned: no url ends the call, else the first is probed.
DiscoverDone ==
    /\ fw.pc = "discover"
    /\ \E listing \in Listings :
        LET urls == get_server_urls(listing)
        IN fw' = [fw EXCEPT !.pc = IF urls = <<>> THEN "done" ELSE "probe",
                            !.queries = fw.queries + 1,
                            !.listing = listing,
                            !.urls = urls,
                            !.result = None]
    /\ UNCHANGED active_url
    /\ UNCHANGED notResolver

\* The url whose probe is in flight.
NextUrl == fw.urls[Len(fw.probes) - (IF IsSome(fw.cached) THEN 1 ELSE 0) + 1]

\* try_url(url) returned inside the for loop (400-408).
ProbeDone ==
    /\ fw.pc = "probe"
    /\ \E ok \in BOOLEAN :
        LET url == NextUrl
            probed == Append(fw.probes, [url |-> url, ok |-> ok])
            tried == Len(probed) - (IF IsSome(fw.cached) THEN 1 ELSE 0)
        IN IF ok
           THEN /\ active_url' = Some(url)
                /\ fw' = [fw EXCEPT !.pc = "done", !.probes = probed,
                                    !.result = Some(url)]
           ELSE /\ UNCHANGED active_url
                /\ fw' = [fw EXCEPT
                            !.pc = IF tried < Len(fw.urls) THEN "probe" ELSE "done",
                            !.probes = probed]
    /\ UNCHANGED notResolver

\* start_sse_listener, between two calls: a stream error, end or timeout
\* sets active_url to None.
Invalidate ==
    /\ fw.pc \in {"idle", "done"}
    /\ IsSome(active_url)
    /\ active_url' = None
    /\ UNCHANGED fw
    /\ UNCHANGED notResolver

InitResolverVars ==
    /\ active_url = None
    /\ fw = IdleFw

NextResolver ==
    \/ FindWorkingUrl
    \/ CachedProbeDone
    \/ DiscoverDone
    \/ ProbeDone
    \/ Invalidate

(***************************************************************************)
(* plex.rs: PlexClient::enrich_artwork and what it calls                   *)
(***************************************************************************)
\* The TMDB ids that occur; with the two media paths they give two cache keys.
TmdbIds == {"603"}
\* Guid tags "<scheme>://<id>", and the Guid lists that occur.
Tmdb == [scheme |-> "tmdb", id |-> "603"]
Imdb == [scheme |-> "imdb", id |-> "tt0133093"]
GuidLists == {<<>>, <<Imdb>>, <<Tmdb>>, <<Imdb, Tmdb>>}

\* The fields of a session that enrichment reads, for the sessions that
\* occur: with and without an own TMDB guid, with and without the key whose
\* metadata would be fetched, of a supported kind or not.
Session(media_type, guids, key, grandparent_key) ==
    [media_type |-> media_type, guids |-> guids, key |-> key,
     grandparent_key |-> grandparent_key]
Sessions ==
    {Session("movie", <<Tmdb>>, Some("/library/metadata/1"), None),
     Session("movie", <<Imdb>>, Some("/library/metadata/1"), None),
     Session("movie", <<>>, None, None),
     Session("episode", <<Imdb, Tmdb>>, Some("/library/metadata/3"),
             Some("/library/metadata/2")),
     Session("episode", <<>>, Some("/library/metadata/3"),
             Some("/library/metadata/2")),
     Session("episode", <<Imdb>>, Some("/library/metadata/3"), None),
     Session("track", <<Tmdb>>, Some("/library/metadata/4"),
             Some("/library/metadata/5")),
     Session("track", <<>>, Some("/library/metadata/4"), None)}

\* The two places update_sessions is called from: the listener
\* (start_sse_listener) and a command (trigger_update).
Callers == {"sse", "manual"}

\* for guid in guids { if let Some(id) = guid.id.strip_prefix("tmdb://") .. }
tmdb_guid(guids) ==
    LET hits == {i \in 1..Len(guids) : guids[i].scheme = "tmdb"}
    IN IF hits = {} THEN None
       ELSE Some(guids[CHOOSE i \in hits : \A j \in hits : i <= j].id)

\* get_tmdb_id after the session's own guids gave nothing: the key whose
\* metadata is fetched, if any (567-580).
metadata_key(session) ==
    IF session.media_type = "episode" /\ IsSome(session.grandparent_key)
    THEN session.grandparent_key
    ELSE IF session.media_type = "movie" /\ IsSome(session.key)
    THEN session.key
    ELSE None

\* fetch_tmdb_id_from_metadata: no active url, a failed request, an
\* undecodable body and an empty Metadata list all give None.
MetadataResponses == {None} \cup {Some(g) : g \in GuidLists}

fetch_tmdb_id_from_metadata(resp) ==
    IF resp = None THEN None ELSE tmdb_guid(Unwrap(resp))

\* match session.media_type.as_str() (509-516)
media_path(media_type) ==
    IF media_type = "movie" THEN Some("movie")
    ELSE IF media_type = "episode" THEN Some("tv")
    ELSE None

\* format!("{}:{}", media_path, tmdb_id)
cache_key(path, tmdb_id) == <<path, tmdb_id>>
Keys == {cache_key(p, i) : p \in {"movie", "tv"}, i \in TmdbIds}

\* The images answer of the catalog, or None when the request or the
\* decoding failed; fetch_tmdb_artwork takes the first poster, else the
\* first backdrop.
ImageResponses ==
    {None} \cup {Some([posters |-> ps, backdrops |-> bs]) :
                    ps \in {<<>>, <<"/poster.jpg">>},
                    bs \in {<<>>, <<"/backdrop.jpg">>}}

fetch_tmdb_artwork(resp) ==
    IF resp = None THEN None
    ELSE LET r == Unwrap(resp)
         IN IF r.posters # <<>> THEN Some(<<"TMDB_IMAGE_BASE", r.posters[1]>>)
            ELSE IF r.backdrops # <<>>
            THEN Some(<<"TMDB_IMAGE_BASE", r.backdrops[1]>>)
            ELSE None

\* Duration::as_secs of a span of ticks.
as_secs(ticks) == ticks \div TicksPerSec

\* entry.timestamp.elapsed().as_secs() < CACHE_TTL_SECS
is_fresh_inclusive(entry, t) == as_secs(t - entry.timestamp) <= CACHE_TTL_SECS

is_fresh(entry, t) == as_secs(t - entry.timestamp) < CACHE_TTL_SECS

\* cache.insert(cache_key, CacheEntry { value, timestamp: Instant::now() })
cache_insert_found_only(cache, k, value, t) ==
    IF value = None THEN cache
    ELSE [cache EXCEPT ![k] = Some([value |-> value, timestamp |-> t])]

cache_insert(cache, k, value, t) ==
    [cache EXCEPT ![k] = Some([value |-> value, timestamp |-> t])]

IdleEnr == [pc |-> "idle", media_type |-> "", key |-> None, art_url |-> None,
            requests |-> 0]

\* enrich_artwork from the TMDB id on (509-535): no path ends the call, a
\* fresh entry ends it with the entry's value, else the catalog is asked.
\* (The call record keeps media_type only until it is matched here.)
with_tmdb_id(call, tmdb_id) ==
    LET path == media_path(call.media_type)
        k == cache_key(Unwrap(path), tmdb_id)
        here == [call EXCEPT !.key = Some(k), !.media_type = ""]
    IN IF path = None THEN [call EXCEPT !.pc = "done", !.media_type = ""]
       ELSE IF IsSome(artwork_cache[k]) /\ is_fresh(Unwrap(artwork_cache[k]), now)
       THEN [here EXCEPT !.pc = "done",
                         !.art_url = Unwrap(artwork_cache[k]).value]
       ELSE [here EXCEPT !.pc = "fetch", !.requests = call.requests + 1]

\* enrich_artwork up to the first request it waits for: the session's own
\* guids are searched first, then the metadata of its key is asked for.
enrich_artwork(session) ==
    LET call == [IdleEnr EXCEPT !.media_type = session.media_type]
        own == tmdb_guid(session.guids)
    IN IF IsSome(own) THEN with_tmdb_id(call, Unwrap(own))
       ELSE IF IsSome(metadata_key(session))
       THEN [call EXCEPT !.pc = "metadata"]
       ELSE [call EXCEPT !.pc = "done", !.media_type = ""]

\* update_sessions calls enrich_artwork on a session fresh from the server.
EnrichArtwork(c) ==
    /\ enr[c].pc \in {"idle", "done"}
    /\ \E session \in Sessions :
        enr' = [enr EXCEPT ![c] = enrich_artwork(session)]
    /\ UNCHANGED <<now, advances, artwork_cache, stored>>
    /\ UNCHANGED notCache

\* The metadata request of get_tmdb_id returned.
MetadataDone(c) ==
    /\ enr[c].pc = "metadata"
    /\ \E resp \in MetadataResponses :
        LET id == fetch_tmdb_id_from_metadata(resp)
        IN enr' = [enr EXCEPT ![c] =
                     IF IsSome(id) THEN with_tmdb_id(enr[c], Unwrap(id))
                     ELSE [enr[c] EXCEPT !.pc = "done", !.media_type = ""]]
    /\ UNCHANGED <<now, advances, artwork_cache, stored>>
    /\ UNCHANGED notCache

\* fetch_tmdb_artwork returned: the result is cached, then given to the
\* session (535-554).
FetchDone(c) ==
    /\ enr[c].pc = "fetch"
    /\ \E resp \in ImageResponses :
        LET art_url == fetch_tmdb_artwork(resp)
            k == Unwrap(enr[c].key)
        IN /\ artwork_cache' = cache_insert(artwork_cache, k, art_url, now)
           /\ stored' = [stored EXCEPT
                           ![k] = Some([value |-> art_url, timestamp |-> now])]
           /\ enr' = [enr EXCEPT ![c] = [enr[c] EXCEPT !.pc = "done",
                                                       !.art_url = art_url]]
    /\ UNCHANGED <<now, advances>>
    /\ UNCHANGED notCache

\* Time passes: one tick, or one tick less than the TTL.
Deltas == {1, CACHE_TTL_SECS * TicksPerSec - 1}

Advance ==
    /\ advances < MaxAdvances
    /\ \E d \in Deltas : now' = now + d
    /\ advances' = advances + 1
    /\ UNCHANGED <<artwork_cache, stored, enr>>
    /\ UNCHANGED notCache

InitCacheVars ==
    /\ now = 0
    /\ advances = 0
    /\ artwork_cache = [k \in Keys |-> None]
    /\ stored = [k \in Keys |-> None]
    /\ enr = [c \in Callers |-> IdleEnr]

NextCache ==
    \/ \E c \in Callers : EnrichArtwork(c)
    \/ \E c \in Callers : MetadataDone(c)
    \/ \E c \in Callers : FetchDone(c)
    \/ Advance

(***************************************************************************)
(* tokio::sync::broadcast, as one receiver of a channel of Capacity slots  *)
(* sees it.  The values are (), so a receiver is the number of values it   *)
(* has yet to read and whether values it had not read were overwritten.    *)
(***************************************************************************)
NoReceiver == [state |-> "none", pending |-> 0, lagged |-> FALSE]
Subscribed == [state |-> "open", pending |-> 0, lagged |-> FALSE]
Dropped == [state |-> "dropped", pending |-> 0, lagged |-> FALSE]

\* let _ = tx.send(()): the call never waits, and its result is ignored.
SendReadyWhenRoom(r) == r.state = "open" /\ r.pending < Capacity

SendReady(r) == TRUE

\* What a send does to a receiver: without one the value is dropped, and in
\* a full channel it overwrites the oldest value the receiver had not read.
send(r) ==
    IF r.state # "open" THEN r
    ELSE IF r.pending = Capacity THEN [r EXCEPT !.lagged = TRUE]
    ELSE [r EXCEPT !.pending = r.pending + 1]

\* rx.recv() is ready; it answers Lagged once, then the values retained.
CanRecv(r) == r.state = "open" /\ (r.lagged \/ r.pending > 0)
RecvResult(r) == IF r.lagged THEN "lagged" ELSE "ok"
AfterRecv(r) ==
    IF r.lagged THEN [r EXCEPT !.lagged = FALSE]
    ELSE [r EXCEPT !.pending = r.pending - 1]

(***************************************************************************)
(* plex.rs: the clients main registered, update_sessions and               *)
(* start_sse_listener                                                      *)
(***************************************************************************)
\* The display names of the registered clients, in registration order.
ServerNames == <<"Attic", "Cellar">>
Sources == 1..Len(ServerNames)
server_name(s) == ServerNames[s]

\* A session as the server reports it: server_name is not deserialized.
Fetched(title) == [title |-> title, server_name |-> ""]

\* fetch_sessions: Err, or the Metadata list of the answer.
FetchResults == {None, Some(<<>>), Some(<<Fetched("Pilot"), Fetched("Heat")>>)}

\* for session in &mut sessions { session.server_name = server_name.clone() }
stamp_first_only(list, name) ==
    [i \in 1..Len(list) |->
        IF i = 1 THEN [list[i] EXCEPT !.server_name = name] ELSE list[i]]

stamp(list, name) ==
    [i \in 1..Len(list) |-> [list[i] EXCEPT !.server_name = name]]

\* Where the listener goes on when its update_sessions returns: the first
\* call is followed by the connect loop, a later one by the next event.
AfterUpdate(pc) ==
    IF pc \in {"init_fetch", "init_emit"} THEN "connect" ELSE "stream"

\* update_sessions from the answer of fetch_sessions to the replacement of
\* the snapshot (480-488): Err is only logged; a list is stamped (and
\* enriched) and replaces the snapshot in one assignment under the lock.
Replace(s) ==
    /\ listener[s].pc \in {"init_fetch", "fetch"}
    /\ \E res \in FetchResults :
        IF res = None
        THEN /\ listener' = [listener EXCEPT ![s].pc = AfterUpdate(listener[s].pc)]
             /\ UNCHANGED <<sessions, news>>
        ELSE /\ sessions' = [sessions EXCEPT
                                ![s] = stamp(Unwrap(res), server_name(s))]
             /\ listener' = [listener EXCEPT ![s].pc =
                    IF listener[s].pc = "init_fetch" THEN "init_emit" ELSE "emit"]
             /\ news' = (news \/ rx[s].state = "open")
    /\ UNCHANGED <<rx, aggregate_rx, collect, main>>
    /\ UNCHANGED <<boardVars, resolverVars, cacheVars, render, sse, upd, cycles>>

\* let _ = self.update_tx.send(())
Emit(s) ==
    /\ listener[s].pc \in {"init_emit", "emit"}
    /\ SendReady(rx[s])
    /\ rx' = [rx EXCEPT ![s] = send(rx[s])]
    /\ listener' = [listener EXCEPT ![s].pc = AfterUpdate(listener[s].pc)]
    /\ news' = (news \/ rx[s].state = "open")
    /\ UNCHANGED <<sessions, aggregate_rx, collect, main>>
    /\ UNCHANGED <<boardVars, resolverVars, cacheVars, render, sse, upd, cycles>>

\* The connect loop (647-687) got a url and an EventSource; a failure sleeps
\* and tries again.
Connect(s) ==
    /\ listener[s].pc = "connect"
    /\ listener' = [listener EXCEPT ![s].pc = "stream"]
    /\ UNCHANGED <<sessions, rx, aggregate_rx, collect, news, main>>
    /\ UNCHANGED <<boardVars, resolverVars, cacheVars, render, sse, upd, cycles>>

\* es.next() won the select with a message: update_sessions is called.
StreamEvent(s) ==
    /\ listener[s].pc = "stream"
    /\ listener' = [listener EXCEPT ![s].pc = "fetch"]
    /\ UNCHANGED <<sessions, rx, aggregate_rx, collect, news, main>>
    /\ UNCHANGED <<boardVars, resolverVars, cacheVars, render, sse, upd, cycles>>

\* The stream ended, failed or timed out: back to the connect loop.
StreamEnd(s) ==
    /\ listener[s].pc = "stream"
    /\ listener' = [listener EXCEPT ![s].pc = "connect"]
    /\ UNCHANGED <<sessions, rx, aggregate_rx, collect, news, main>>
    /\ UNCHANGED <<boardVars, resolverVars, cacheVars, render, sse, upd, cycles>>

\* The listener saw the cancellation: at the head of the connect loop, in a
\* sleep, or in the select of the event loop.
ListenerShutdownAtLoopHeadOnly(s) ==
    /\ listener[s].pc = "connect"
    /\ cancelled
    /\ listener' = [listener EXCEPT ![s].pc = "stopped"]
    /\ UNCHANGED <<sessions, rx, aggregate_rx, collect, news, main>>
    /\ UNCHANGED <<boardVars, resolverVars, cacheVars, render, sse, upd,
                   cycles>>

ListenerShutdown(s) ==
    /\ listener[s].pc \in {"connect", "stream"}
    /\ cancelled
    /\ listener' = [listener EXCEPT ![s].pc = "stopped"]
    /\ UNCHANGED <<sessions, rx, aggregate_rx, collect, news, main>>
    /\ UNCHANGED <<boardVars, resolverVars, cacheVars, render, sse, upd, cycles>>

(***************************************************************************)
(* main.rs: update_loop with its forwarders, and the shutdown of main      *)
(***************************************************************************)
\* What a forwarder does with the result of rx.recv() (44-57).
ForwarderOnRecvBreaksOnLag(result) ==
    IF result = "ok" THEN "forward" ELSE "break"

ForwarderOnRecvLagOnly(result) ==
    IF result = "lagged" THEN "forward" ELSE "break"

ForwarderOnRecv(result) ==
    IF result \in {"ok", "lagged"} THEN "forward" ELSE "break"

\* update_loop begins: the aggregate channel is created, and for every
\* client a forwarder is subscribed and spawned (29-62).
UpdateLoopStart ==
    /\ agg.pc = "start"
    /\ agg' = [agg EXCEPT !.pc = "wait"]
    /\ rx' = [s \in Sources |-> Subscribed]
    /\ aggregate_rx' = Subscribed
    /\ UNCHANGED <<config, disk, msgChannel, deleted, wakeups, cancelled,
                   chanCmd, clearCmd>>
    /\ UNCHANGED <<sessions, listener, collect, news, main>>
    /\ UNCHANGED <<resolverVars, cacheVars, render, sse, upd, cycles>>

\* rx.recv() won the forwarder's select.
Forward(s) ==
    /\ CanRecv(rx[s])
    /\ IF ForwarderOnRecv(RecvResult(rx[s])) = "forward"
       THEN /\ rx' = [rx EXCEPT ![s] = AfterRecv(rx[s])]
            /\ SendReady(aggregate_rx)
            /\ aggregate_rx' = IF agg.pc = "stopped" THEN aggregate_rx
                               ELSE send(aggregate_rx)
       ELSE /\ rx' = [rx EXCEPT ![s] = Dropped]
            /\ UNCHANGED aggregate_rx
    /\ UNCHANGED <<sessions, listener, collect, news, main>>
    /\ UNCHANGED <<boardVars, resolverVars, cacheVars, render, sse, upd, cycles>>

\* cancel.cancelled() won the forwarder's select.
ForwarderShutdown(s) ==
    /\ rx[s].state = "open"
    /\ cancelled
    /\ rx' = [rx EXCEPT ![s] = Dropped]
    /\ UNCHANGED <<sessions, listener, aggregate_rx, collect, news, main>>
    /\ UNCHANGED <<boardVars, resolverVars, cacheVars, render, sse, upd, cycles>>

\* all_sessions.extend(client.get_sessions().await)
extend_in_front(all, snapshot) == snapshot \o all

extend(all, snapshot) == all \o snapshot

\* aggregate_rx.recv() returned Ok or Lagged: the Config is read, and
\* without a channel the tick ends there.
AggregateRecv ==
    /\ agg.pc = "wait"
    /\ CanRecv(aggregate_rx)
    /\ aggregate_rx' = AfterRecv(aggregate_rx)
    /\ news' = FALSE
    /\ collect' = NoCollect
    /\ LET cfg == config
       IN IF TickPlan(cfg) = "skip"
          THEN agg' = [pc |-> "wait", cfg |-> cfg, writes |-> <<>>,
                       result |-> "skipped"]
          ELSE agg' = [pc |-> "collect", cfg |-> cfg, writes |-> <<>>,
                       result |-> "pending"]
    /\ UNCHANGED <<config, disk, msgChannel, deleted, wakeups, cancelled,
                   chanCmd, clearCmd>>
    /\ UNCHANGED <<sessions, listener, rx, main>>
    /\ UNCHANGED <<resolverVars, cacheVars, render, sse, upd, cycles>>

\* One round of the loop over the clients (96-99); after the last client
\* the embeds are built and the chat request is issued.
Collect ==
    /\ agg.pc = "collect"
    /\ LET i == Len(collect.server_names) + 1
           plan == TickPlan(agg.cfg)
       IN /\ collect' = [all_sessions |-> extend(collect.all_sessions,
                                                  sessions[i]),
                         server_names |-> Append(collect.server_names,
                                                 server_name(i))]
          /\ agg' = IF i < Len(ServerNames) THEN agg
                    ELSE [agg EXCEPT !.pc = plan,
                                     !.writes = <<ChatRequest(plan, agg.cfg)>>]
    /\ UNCHANGED <<config, disk, msgChannel, deleted, wakeups, cancelled,
                   chanCmd, clearCmd>>
    /\ UNCHANGED <<sessions, listener, rx, aggregate_rx, news, main>>
    /\ UNCHANGED <<resolverVars, cacheVars, render, sse, upd, cycles>>

\* main awaited every listener's handle (328-331).
JoinListeners ==
    /\ main = "run"
    /\ cancelled
    /\ \A s \in Sources : listener[s].pc = "stopped"
    /\ main' = "join_update"
    /\ UNCHANGED <<sessions, listener, rx, aggregate_rx, collect, news>>
    /\ UNCHANGED <<boardVars, resolverVars, cacheVars, render, sse, upd, cycles>>

\* main awaited update_loop's handle and reports "Shutdown complete".
JoinUpdateLoop ==
    /\ main = "join_update"
    /\ agg.pc = "stopped"
    /\ main' = "complete"
    /\ UNCHANGED <<sessions, listener, rx, aggregate_rx, collect, news>>
    /\ UNCHANGED <<boardVars, resolverVars, cacheVars, render, sse, upd, cycles>>

InitFanVars ==
    /\ sessions = [s \in Sources |-> <<>>]
    /\ listener = [s \in Sources |-> [pc |-> "init_fetch"]]
    /\ rx = [s \in Sources |-> NoReceiver]
    /\ aggregate_rx = NoReceiver
    /\ collect = NoCollect
    /\ news = FALSE
    /\ main = "run"

\* The steps of a program that is not shutting down.
NextRunning ==
    \/ \E s \in Sources : Replace(s)
    \/ \E s \in Sources : Emit(s)
    \/ \E s \in Sources : Connect(s)
    \/ \E s \in Sources : StreamEvent(s)
    \/ \E s \in Sources : StreamEnd(s)
    \/ UpdateLoopStart
    \/ \E s \in Sources : Forward(s)
    \/ AggregateRecv
    \/ Collect
    \/ EditDone

NextFanIn ==
    \/ NextRunning
    \/ \E s \in Sources : ListenerShutdown(s)
    \/ \E s \in Sources : ForwarderShutdown(s)
    \/ UpdateLoopShutdown
    \/ Cancel
    \/ JoinListeners
    \/ JoinUpdateLoop

(***************************************************************************)
(* plex.rs: start_sse_listener of the first client, step by step.  Its     *)
(* snapshot is sessions[1], the receiver of its update_tx is rx[1], its    *)
(* active_url and its find_working_url call are active_url and fw.         *)
(***************************************************************************)
\* What fetch_sessions can answer: without an active url the request goes
\* to "/status/sessions" of no host and fails (459-460).
fetch_sessions(url, answers) == IF url = None THEN {None} ELSE answers

\* The snapshot after update_sessions: Err is logged, a list is stamped and
\* replaces the snapshot (480-495).
on_fetch_err_clears(res, snapshot, name) ==
    IF res = None THEN <<>> ELSE stamp(Unwrap(res), name)

on_fetch(res, snapshot, name) ==
    IF res = None THEN snapshot ELSE stamp(Unwrap(res), name)

\* What the listener has received: Event::Open, or a Message, of which the
\* code reads the event name for a debug line only.
Messages == {"activity"}
SseEvents == {"open"} \cup Messages

\* The match on the event (700-708).
on_event_polls_always(event) == "poll"

on_event(event) == IF event = "open" THEN "stream" ELSE "poll"

\* The match on the result of find_working_url (653-662).
on_resolved_connects_anyway(result) == "es_new"

on_resolved(result) == IF IsSome(result) THEN "es_new" ELSE "sleep10"

\* active_url after the stream failed, ended or timed out (697, 711, 716).
on_stream_lost_keeps_url(url) == url

on_stream_lost(url) == None

\* What a step of the listener leaves alone, besides the variables of the
\* subsystems it does not touch.
notListener == <<boardVars, cacheVars, listener, aggregate_rx, collect, news,
                 main, render, upd, cycles>>

\* The listener moves on; what it logged in the step before is history.
At(pc) == [sse EXCEPT !.pc = pc, !.note = "none"]

\* update_sessions returned, at the start (645) or after a message (707).
\* (The sessions of FetchResults carry no guid, so their enrichment asks
\* nothing and stores nothing.)
PollDone ==
    /\ sse.pc \in {"init_poll", "poll"}
    /\ \E res \in fetch_sessions(active_url, FetchResults) :
        /\ sessions' = [sessions EXCEPT
                          ![1] = on_fetch(res, sessions[1], server_name(1))]
        /\ rx' = [rx EXCEPT ![1] = IF res = None THEN rx[1] ELSE send(rx[1])]
        /\ sse' = [sse EXCEPT
                     !.pc = IF sse.pc = "init_poll" THEN "loop_head"
                            ELSE "stream",
                     !.note = IF res = None THEN "fetch failed" ELSE "updated"]
    /\ UNCHANGED <<active_url, fw>>
    /\ UNCHANGED notListener

\* The head of the loop (648-653): the token is looked at, then
\* find_working_url is called.
LoopHead ==
    /\ sse.pc = "loop_head"
    /\ IF cancelled
       THEN /\ sse' = At("stopped")
            /\ UNCHANGED fw
       ELSE /\ sse' = At("resolve")
            /\ fw' = [IdleFw EXCEPT
                        !.pc = IF IsSome(active_url) THEN "probe_cached"
                               ELSE "discover",
                        !.cached = active_url]
    /\ UNCHANGED <<active_url, sessions, rx>>
    /\ UNCHANGED notListener

\* A request of find_working_url was answered.
Resolving ==
    /\ sse.pc = "resolve"
    /\ CachedProbeDone \/ DiscoverDone \/ ProbeDone

\* find_working_url returned (653-662): None sleeps, a url is connected to.
\* What the call held is gone with it.
Resolved ==
    /\ sse.pc = "resolve"
    /\ fw.pc = "done"
    /\ sse' = At(on_resolved(fw.result))
    /\ fw' = IdleFw
    /\ UNCHANGED <<active_url, sessions, rx>>
    /\ UNCHANGED notListener

\* EventSource::new returned (674-687): Err only for a request that cannot
\* be cloned.
EventSourceNew(ok) ==
    /\ sse.pc = "es_new"
    /\ IF ok
       THEN /\ sse' = At("stream")
            /\ UNCHANGED active_url
       ELSE /\ sse' = At("sleep5_new")
            /\ active_url' = None
    /\ UNCHANGED <<fw, sessions, rx>>
    /\ UNCHANGED notListener

\* A sleep of the reconnect loop elapsed first (659-660, 684-685, 728-730).
SleepDone ==
    /\ sse.pc \in {"sleep10", "sleep5_new", "sleep5"}
    /\ sse' = At("loop_head")
    /\ UNCHANGED <<active_url, fw, sessions, rx>>
    /\ UNCHANGED notListener

\* cancel.cancelled() won a select (659, 683, 691-694, 728).
SelectCancelled ==
    /\ sse.pc \in {"sleep10", "sleep5_new", "sleep5", "stream"}
    /\ cancelled
    /\ sse' = At("stopped")
    /\ UNCHANGED <<active_url, fw, sessions, rx>>
    /\ UNCHANGED notListener

\* es.next() won the select with an event (700-708).
StreamNext ==
    /\ sse.pc = "stream"
    /\ Len(sse.log) < MaxEvents
    /\ \E event \in SseEvents :
        sse' = [At(on_event(event)) EXCEPT
                  !.log = Append(sse.log, event),
                  !.polls = IF on_event(event) = "poll" THEN sse.polls + 1
                            ELSE sse.polls]
    /\ UNCHANGED <<active_url, fw, sessions, rx>>
    /\ UNCHANGED notListener

\* The 90 s passed without an event, or es.next() gave an error or the end
\* of the stream (695-718).
StreamLost ==
    /\ sse.pc = "stream"
    /\ \E why \in {"timeout", "error", "end"} :
        sse' = [sse EXCEPT !.pc = "after_stream", !.note = why]
    /\ active_url' = on_stream_lost(active_url)
    /\ UNCHANGED <<fw, sessions, rx>>
    /\ UNCHANGED notListener

\* After the event loop (724-727): the token is looked at, then the 5 s
\* sleep begins.
AfterStream ==
    /\ sse.pc = "after_stream"
    /\ sse' = At(IF cancelled THEN "stopped" ELSE "sleep5")
    /\ UNCHANGED <<active_url, fw, sessions, rx>>
    /\ UNCHANGED notListener

\* The server goes down or comes back.
ServerChanges ==
    /\ sse' = [sse EXCEPT !.up = ~sse.up]
    /\ UNCHANGED <<active_url, fw, sessions, rx>>
    /\ UNCHANGED notListener

\* While the server is up, the listing names its first host and that host
\* answers.
Reachable ==
    sse.up =>
        /\ fw'.pc = "probe" /\ fw.pc = "discover" =>
              \E i \in 1..Len(fw'.urls) : fw'.urls[i].host = 1
        /\ fw.pc = "discover" => fw'.pc = "probe"
        /\ Len(fw'.probes) > Len(fw.probes) =>
              (fw'.probes[Len(fw'.probes)].url.host = 1 =>
                  fw'.probes[Len(fw'.probes)].ok)

NoListener == [pc |-> "none", log |-> <<>>, polls |-> 0, note |-> "none",
               up |-> FALSE]

\* The steps of the listener while the program runs and its request can be
\* cloned.
NextListening ==
    \/ PollDone
    \/ LoopHead
    \/ Resolving /\ Reachable
    \/ Resolved
    \/ EventSourceNew(TRUE)
    \/ SleepDone
    \/ StreamNext
    \/ StreamLost
    \/ AfterStream
    \/ ServerChanges

\* The identity service lists direct connections with uris that end without
\* a slash.
DirectListing ==
    fw.pc = "discover" =>
        \A i \in 1..Len(fw'.listing.connections) :
            /\ fw'.listing.connections[i].local
            /\ fw'.listing.connections[i].uri.slashes = 0

\* The steps of the listener with such an identity service.
NextSteady ==
    \/ PollDone
    \/ LoopHead
    \/ Resolving /\ Reachable /\ DirectListing
    \/ Resolved
    \/ EventSourceNew(TRUE)
    \/ SleepDone
    \/ StreamNext
    \/ StreamLost
    \/ AfterStream
    \/ ServerChanges

NextListener ==
    \/ NextListening
    \/ EventSourceNew(FALSE)
    \/ SelectCancelled
    \/ Cancel

(***************************************************************************)
(* plex.rs: PlexClient::update_sessions of the first client, session by    *)
(* session.  Its enrich_artwork calls are those of the caller "sse".       *)
(***************************************************************************)
\* The sessions that occur in an answer: one with its own TMDB guid, one
\* whose TMDB id comes from the metadata of its key, one without any key,
\* and one of a kind that has no artwork.
Playing ==
    {Session("movie", <<Tmdb>>, Some("/library/metadata/1"), None),
     Session("movie", <<Imdb>>, Some("/library/metadata/1"), None),
     Session("movie", <<>>, None, None),
     Session("track", <<Tmdb>>, Some("/library/metadata/4"),
             Some("/library/metadata/5"))}

\* SessionMetadata as serde builds it: art_url and server_name are skipped
\* and get their defaults (76-79).
Deserialized(s) ==
    [media_type |-> s.media_type, guids |-> s.guids, key |-> s.key,
     grandparent_key |-> s.grandparent_key, art_url |-> None,
     server_name |-> ""]

\* Ok(container.media_container.metadata) of fetch_sessions, or Err.
SessionLists ==
    {None} \cup {Some([i \in 1..Len(q) |-> Deserialized(q[i])]) :
                    q \in SeqsUpTo(Playing, MaxFetched)}

\* How an enrich_artwork call ended: without a cache key (no TMDB id, or a
\* kind without artwork), with the value of a fresh entry, or with the
\* answer of the catalog.
ending(call) ==
    IF call.key = None THEN "none"
    ELSE IF call.requests > 0 THEN "fetched"
    ELSE "cached"

\* The session after enrich_artwork returned: art_url is assigned at 526
\* and 554 only.
enriched(session, call) ==
    IF call.key = None THEN session
    ELSE [session EXCEPT !.art_url = call.art_url]

\* *self.sessions.write().await = sessions.clone()
published_with_artwork_only(work) ==
    SelectSeq(work, LAMBDA session : IsSome(session.art_url))

published(work) == work

NoUpdate == [pc |-> "none", fetched |-> <<>>, work |-> <<>>,
             results |-> <<>>, calls |-> 0, note |-> "none"]

notUpdate == <<boardVars, resolverVars, listener, aggregate_rx, collect, news,
               main, render, sse, cycles>>

\* fetch_sessions returned to update_sessions: Err is logged and the call
\* ends; with Ok the loop over the list begins.
FetchReturned ==
    /\ upd.pc = "idle"
    /\ upd.calls < MaxUpdates
    /\ \E res \in fetch_sessions(active_url, SessionLists) :
        IF res = None
        THEN /\ sessions' = [sessions EXCEPT
                               ![1] = on_fetch(res, sessions[1], server_name(1))]
             /\ upd' = [NoUpdate EXCEPT !.pc = "idle",
                                        !.calls = upd.calls + 1,
                                        !.note = "fetch failed"]
        ELSE /\ UNCHANGED sessions
             /\ upd' = [NoUpdate EXCEPT
                          !.pc = IF Unwrap(res) = <<>> THEN "replace"
                                 ELSE "enrich",
                          !.fetched = Unwrap(res),
                          !.work = Unwrap(res),
                          !.calls = upd.calls + 1]
    /\ UNCHANGED <<rx, cacheVars>>
    /\ UNCHANGED notUpdate

\* One round of the loop begins (484-486): the session gets the server's
\* name and enrich_artwork is called with it.
EnrichBegin ==
    /\ upd.pc = "enrich"
    /\ LET i == Len(upd.results) + 1
           session == [upd.work[i] EXCEPT !.server_name = server_name(1)]
       IN /\ upd' = [upd EXCEPT !.pc = "enriching", !.work[i] = session,
                                !.note = "none"]
          /\ enr' = [enr EXCEPT !["sse"] = enrich_artwork(session)]
    /\ UNCHANGED <<sessions, rx, now, advances, artwork_cache, stored>>
    /\ UNCHANGED notUpdate

\* enrich_artwork returned, by one of its early returns or at its end.
EnrichEnd ==
    /\ upd.pc = "enriching"
    /\ enr["sse"].pc = "done"
    /\ LET i == Len(upd.results) + 1
           call == enr["sse"]
       IN upd' = [upd EXCEPT
                    !.pc = IF i < Len(upd.work) THEN "enrich" ELSE "replace",
                    !.work[i] = enriched(upd.work[i], call),
                    !.results = Append(upd.results,
                                       [ending |-> ending(call),
                                        art_url |-> call.art_url])]
    /\ enr' = [enr EXCEPT !["sse"] = IdleEnr]
    /\ UNCHANGED <<sessions, rx, now, advances, artwork_cache, stored>>
    /\ UNCHANGED notUpdate

\* The snapshot is replaced and the notification sent (488-490).
ReplaceAndSend ==
    /\ upd.pc = "replace"
    /\ sessions' = [sessions EXCEPT ![1] = published(upd.work)]
    /\ rx' = [rx EXCEPT ![1] = send(rx[1])]
    /\ upd' = [upd EXCEPT !.pc = "idle", !.note = "updated"]
    /\ UNCHANGED cacheVars
    /\ UNCHANGED notUpdate

\* update_loop's forwarder takes a notification.
Drain ==
    /\ CanRecv(rx[1])
    /\ rx' = [rx EXCEPT ![1] = AfterRecv(rx[1])]
    /\ UNCHANGED <<sessions, cacheVars, upd>>
    /\ UNCHANGED notUpdate

NextUpdate ==
    \/ FetchReturned
    \/ EnrichBegin
    \/ upd.pc = "enriching" /\ MetadataDone("sse")
    \/ upd.pc = "enriching" /\ FetchDone("sse")
    \/ EnrichEnd
    \/ ReplaceAndSend
    \/ Drain

(***************************************************************************)
(* plex.rs: the update_sessions calls of the first client's two callers,   *)
(* the listener (on a stream message) and trigger_update (on a command),   *)
(* which may run at the same time.  Between the answer of fetch_sessions   *)
(* and the replacement of the snapshot a call awaits the server_name lock, *)
(* every enrich_artwork and the sessions lock.                             *)
(***************************************************************************)
IdleCycle == [pc |-> "idle", list |-> <<>>]

NoCycles == [served |-> 0, latest |-> <<>>,
             call |-> [c \in Callers |-> IdleCycle]]

notCycles == <<boardVars, resolverVars, cacheVars, listener, aggregate_rx,
               collect, news, main, render, sse, upd>>

InFlight == {c \in Callers : cycles.call[c].pc # "idle"}

\* update_sessions is called: by the listener for a message (707), by
\* trigger_update for a command (419).
CycleBegin(c) ==
    /\ cycles.call[c].pc = "idle"
    /\ cycles.served + Cardinality(InFlight) < MaxAnswers
    /\ cycles' = [cycles EXCEPT !.call[c].pc = "fetch"]
    /\ UNCHANGED <<sessions, rx>>
    /\ UNCHANGED notCycles

\* The server answered the call's fetch_sessions: Err ends the call, a list
\* is what the server had at that moment.
CycleFetched(c) ==
    /\ cycles.call[c].pc = "fetch"
    /\ \E res \in FetchResults :
        IF res = None
        THEN cycles' = [cycles EXCEPT !.call[c] = IdleCycle]
        ELSE cycles' = [cycles EXCEPT
                          !.served = cycles.served + 1,
                          !.latest = Unwrap(res),
                          !.call[c] = [pc |-> "got", list |-> Unwrap(res)]]
    /\ UNCHANGED <<sessions, rx>>
    /\ UNCHANGED notCycles

\* The call took the sessions lock, replaced the snapshot and sent the
\* notification (488-490).
CycleReplace(c) ==
    /\ cycles.call[c].pc = "got"
    /\ sessions' = [sessions EXCEPT
                       ![1] = on_fetch(Some(cycles.call[c].list), sessions[1],
                                       server_name(1))]
    /\ rx' = [rx EXCEPT ![1] = send(rx[1])]
    /\ cycles' = [cycles EXCEPT !.call[c] = IdleCycle]
    /\ UNCHANGED notCycles

NextOverlap ==
    \/ \E c \in Callers : CycleBegin(c)
    \/ \E c \in Callers : CycleFetched(c)
    \/ \E c \in Callers : CycleReplace(c)
    \/ Drain

(***************************************************************************)
(* f64 as progress_bar uses it: the quotient of two integers, correctly    *)
(* rounded to a significand of Significand bits (ties to even), clamped to *)
(* [0, 1], and the integer part of its correctly rounded product with a    *)
(* small integer.  A significand is a sequence of bits, first bit 1.       *)
(***************************************************************************)
RECURSIVE FromBits(_)
FromBits(b) ==
    IF b = <<>> THEN 0
    ELSE 2 * FromBits(SubSeq(b, 1, Len(b) - 1)) + b[Len(b)]

\* b + 1, one bit longer when every bit of b is 1.
RECURSIVE Inc(_)
Inc(b) ==
    IF b = <<>> THEN <<1>>
    ELSE IF b[Len(b)] = 0 THEN [b EXCEPT ![Len(b)] = 1]
    ELSE Append(Inc(SubSeq(b, 1, Len(b) - 1)), 0)

\* The zeros that begin the binary fraction r/d, for 0 < r < d.
RECURSIVE LeadingZeros(_, _)
LeadingZeros(r, d) == IF 2 * r >= d THEN 0 ELSE 1 + LeadingZeros(2 * r, d)

\* The next n digits of the binary fraction r/d, and what is left of r.
RECURSIVE DivBits(_, _, _)
DivBits(r, d, n) ==
    IF n = 0 THEN <<>>
    ELSE LET b == IF 2 * r >= d THEN 1 ELSE 0
         IN <<b>> \o DivBits(2 * r - b * d, d, n - 1)

RECURSIVE DivRem(_, _, _)
DivRem(r, d, n) ==
    IF n = 0 THEN r
    ELSE DivRem(2 * r - (IF 2 * r >= d THEN d ELSE 0), d, n - 1)

\* b * c + carry, for a small c: long multiplication from the last bit.
RECURSIVE MulSmall(_, _, _)
MulSmall(b, c, carry) ==
    IF carry = 0 /\ b = <<>> THEN <<>>
    ELSE LET last == IF b = <<>> THEN 0 ELSE b[Len(b)]
             front == IF b = <<>> THEN <<>> ELSE SubSeq(b, 1, Len(b) - 1)
             t == last * c + carry
         IN Append(MulSmall(front, c, t \div 2), t % 2)

\* (offset as f64 / duration as f64).clamp(0.0, 1.0), for duration > 0: the
\* value is sig * 2^-(zeros + Significand).
ratio(offset, duration) ==
    IF offset >= duration THEN [kind |-> "one", zeros |-> 0, sig |-> <<>>]
    ELSE IF offset = 0 THEN [kind |-> "zero", zeros |-> 0, sig |-> <<>>]
    ELSE LET z == LeadingZeros(offset, duration)
             r == DivRem(offset, duration, z)
             sig == DivBits(r, duration, Significand)
             left == DivRem(r, duration, Significand)
             up == 2 * left > duration
                     \/ (2 * left = duration /\ sig[Significand] = 1)
             rounded == IF up THEN Inc(sig) ELSE sig
         IN IF Len(rounded) > Significand
            THEN [kind |-> "frac", zeros |-> z - 1,
                  sig |-> SubSeq(rounded, 1, Significand)]
            ELSE [kind |-> "frac", zeros |-> z, sig |-> rounded]

\* (progress * c as f64) as an integer type, for an integer c > 1.
scaled(progress, c) ==
    IF progress.kind = "zero" THEN 0
    ELSE IF progress.kind = "one" THEN c
    ELSE LET product == MulSmall(progress.sig, c, 0)
             kept == SubSeq(product, 1, Significand)
             rest == SubSeq(product, Significand + 1, Len(product))
             up == /\ rest[1] = 1
                   /\ \/ kept[Significand] = 1
                      \/ \E i \in 2..Len(rest) : rest[i] = 1
             rounded == (IF up THEN Inc(kept) ELSE kept)
                           \o [i \in 1..Len(rest) |-> 0]
             whole == Len(rounded) - (progress.zeros + Significand)
         IN IF whole <= 0 THEN 0 ELSE FromBits(SubSeq(rounded, 1, whole))

(***************************************************************************)
(* plex.rs: SessionMetadata::progress_bar                                  *)
(***************************************************************************)
\* "#".repeat(n)
repeat(ch, n) == [i \in 1..n |-> ch]

\* The text is "[" bar "] " percent "%", with "--" for no percent.
progress_bar(view_offset, duration) ==
    IF IsSome(view_offset) /\ IsSome(duration) /\ Unwrap(duration) > 0
    THEN LET progress == ratio(Unwrap(view_offset), Unwrap(duration))
             filled == scaled(progress, BAR_WIDTH)
             empty == BAR_WIDTH - filled
             percent == scaled(progress, 100)
         IN [bar |-> repeat("#", filled) \o repeat("-", empty),
             percent |-> Some(percent)]
    ELSE [bar |-> repeat("-", BAR_WIDTH), percent |-> None]

(***************************************************************************)
(* embeds.rs                                                               *)
(***************************************************************************)
\* An episode a quarter through.
Episode ==
    [title |-> "Pilot", media_type |-> "episode", year |-> None,
     duration |-> Some(1200), view_offset |-> Some(300),
     grandparent_title |-> Some("Foo"), parent_title |-> Some("Season 1"),
     parent_index |-> Some(1), index |-> Some(2), user |-> Some("alice"),
     player |-> Some("playing"), art_url |-> Some("/poster.jpg"),
     server_name |-> "Attic"]

\* The sessions that are rendered: the episode, a movie, a track without
\* artist, duration and player, and a clip of no length without a user.
RenderSessions ==
    {Episode,
     [title |-> "Heat", media_type |-> "movie", year |-> Some(1995),
      duration |-> Some(50), view_offset |-> Some(29),
      grandparent_title |-> None, parent_title |-> None,
      parent_index |-> None, index |-> None, user |-> Some("bob"),
      player |-> Some("paused"), art_url |-> None, server_name |-> "Cellar"],
     [title |-> "Intro", media_type |-> "track", year |-> None,
      duration |-> None, view_offset |-> Some(10),
      grandparent_title |-> None, parent_title |-> Some("Album"),
      parent_index |-> None, index |-> Some(1), user |-> Some("alice"),
      player |-> None, art_url |-> None, server_name |-> "Attic"],
     [title |-> "Trailer", media_type |-> "clip", year |-> None,
      duration |-> Some(0), view_offset |-> None,
      grandparent_title |-> None, parent_title |-> None,
      parent_index |-> None, index |-> None, user |-> None,
      player |-> Some("buffering"), art_url |-> None,
      server_name |-> "Cellar"]}

\* opt.unwrap_or(default)
unwrap_or(opt, default) == IF IsSome(opt) THEN Unwrap(opt) ELSE default

\* The description of a session's embed (47-86): the layout of the text and
\* what fills it.
Description(layout, bold, text, album, season, episode, year, progress) ==
    [layout |-> layout, bold |-> bold, text |-> text, album |-> album,
     season |-> season, episode |-> episode, year |-> year,
     progress |-> progress]

description(session) ==
    LET bar == Some(progress_bar(session.view_offset, session.duration))
    IN IF session.media_type = "episode"
       THEN Description("episode",
                        unwrap_or(session.grandparent_title, "Unknown Show"),
                        session.title, "",
                        Some(unwrap_or(session.parent_index, 0)),
                        Some(unwrap_or(session.index, 0)), None, bar)
       ELSE IF session.media_type = "movie"
       THEN Description("movie", session.title, "", "", None, None,
                        session.year, bar)
       ELSE IF session.media_type = "track"
       THEN Description("track",
                        unwrap_or(session.grandparent_title, "Unknown Artist"),
                        session.title,
                        unwrap_or(session.parent_title, "Unknown Album"),
                        None, None, None, bar)
       ELSE Description("other", session.title, "", "", None, None, None, bar)

color(player_state) ==
    IF player_state = "playing" THEN "e5a00d"
    ELSE IF player_state = "paused" THEN "666666"
    ELSE "282a2d"

\* A footer: a text, or a number followed by a text.
Footer(count, text) == [count |-> count, text |-> text]

build_session_embed(session) ==
    LET user_name == unwrap_or(session.user, "Unknown User")
        player_state == unwrap_or(session.player, "unknown")
    IN [title |-> <<user_name, player_state>>,
        description |-> description(session),
        color |-> color(player_state),
        footer |-> Footer(None, session.server_name),
        thumbnail |-> session.art_url]

\* The footer of the empty board (14-18).
footer_text_counts_always(server_names) ==
    Footer(Some(Len(server_names)), "servers")

footer_text(server_names) ==
    IF Len(server_names) = 1 THEN Footer(None, server_names[1])
    ELSE Footer(Some(Len(server_names)), "servers")

NoSessionsEmbed(server_names) ==
    [title |-> <<"Plex Activity">>,
     description |-> Description("plain", "", "No active sessions", "",
                                 None, None, None, None),
     color |-> "282a2d",
     footer |-> footer_text(server_names),
     thumbnail |-> None]

build_session_embeds(sessions_in, server_names) ==
    IF sessions_in = <<>> THEN <<NoSessionsEmbed(server_names)>>
    ELSE [i \in 1..Len(sessions_in) |-> build_session_embed(sessions_in[i])]

(***************************************************************************)
(* One call of progress_bar or of build_session_embeds                     *)
(***************************************************************************)
\* No call.
NoRender == [fn |-> "none"]

\* The name of the i-th client: a registered one, or PlexClient's default.
RenderName(i) == IF i <= Len(ServerNames) THEN ServerNames[i] ELSE "Plex"

BarInputs ==
    [fn : {"progress_bar"},
     view_offset : {None} \cup {Some(o) : o \in 0..MaxOffset},
     duration : {None} \cup {Some(d) : d \in 0..MaxDuration},
     out : {None}]

BoardInputs ==
    [fn : {"build_session_embeds"},
     sessions : SeqsUpTo(RenderSessions, MaxRendered),
     server_names : {[i \in 1..n |-> RenderName(i)] : n \in 0..MaxServers},
     out : {None}]

ProgressBar ==
    /\ render.fn = "progress_bar"
    /\ render.out = None
    /\ render' = [render EXCEPT
                    !.out = Some(progress_bar(render.view_offset,
                                              render.duration))]
    /\ UNCHANGED <<boardVars, resolverVars, cacheVars, fanVars, sse, upd, cycles>>

BuildSessionEmbeds ==
    /\ render.fn = "build_session_embeds"
    /\ render.out = None
    /\ render' = [render EXCEPT
                    !.out = Some(build_session_embeds(render.sessions,
                                                      render.server_names))]
    /\ UNCHANGED <<boardVars, resolverVars, cacheVars, fanVars, sse, upd, cycles>>

(***************************************************************************)
(* SpecBoard                                                               *)
(***************************************************************************)
InitBoardVars ==
    /\ config = ConfigDefault
    /\ disk = ConfigDefault
    /\ msgChannel = <<>>
    /\ deleted = {}
    /\ wakeups = 0
    /\ cancelled = FALSE
    /\ agg = NoTick
    /\ chanCmd = IdleChan
    /\ clearCmd = IdleClear

InitBoard ==
    /\ InitBoardVars /\ InitResolverVars /\ InitCacheVars /\ InitFanVars
    /\ render = NoRender
    /\ sse = NoListener
    /\ upd = NoUpdate
    /\ cycles = NoCycles

NextBoard ==
    \/ TickRecv
    \/ EditDone
    \/ CreateOk
    \/ CreateErr
    \/ UpdateLoopShutdown
    \/ Cancel
    \/ Notify
    \/ HandleSetChannel
    \/ TriggerAllUpdates
    \/ HandleClear
    \/ ClearDeleteDone

SpecBoard == InitBoard /\ [][NextBoard]_vars

(***************************************************************************)
(* SpecRestart: the program starts with the Config an earlier run saved,   *)
(* whose board message has since been deleted in Discord.                  *)
(***************************************************************************)
StaleBoard == [session_channel_id |-> Some(1), session_message_id |-> Some(0)]

InitRestart ==
    /\ config = StaleBoard
    /\ disk = StaleBoard
    /\ msgChannel = <<>>
    /\ deleted = {}
    /\ wakeups = 0
    /\ cancelled = FALSE
    /\ agg = NoTick
    /\ chanCmd = IdleChan
    /\ clearCmd = IdleClear
    /\ InitResolverVars /\ InitCacheVars /\ InitFanVars
    /\ render = NoRender
    /\ sse = NoListener
    /\ upd = NoUpdate
    /\ cycles = NoCycles

SpecRestart == InitRestart /\ [][NextBoard]_vars

(***************************************************************************)
(* SpecResolver                                                            *)
(***************************************************************************)
InitResolver ==
    /\ InitBoardVars /\ InitResolverVars /\ InitCacheVars /\ InitFanVars
    /\ render = NoRender
    /\ sse = NoListener
    /\ upd = NoUpdate
    /\ cycles = NoCycles

SpecResolver == InitResolver /\ [][NextResolver]_vars

(***************************************************************************)
(* SpecCache                                                               *)
(***************************************************************************)
InitCache ==
    /\ InitBoardVars /\ InitResolverVars /\ InitCacheVars /\ InitFanVars
    /\ render = NoRender
    /\ sse = NoListener
    /\ upd = NoUpdate
    /\ cycles = NoCycles

SpecCache == InitCache /\ [][NextCache]_vars

(***************************************************************************)
(* SpecRender: progress_bar or build_session_embeds is called once, on an  *)
(* input that occurs.                                                      *)
(***************************************************************************)
InitRender ==
    /\ InitBoardVars /\ InitResolverVars /\ InitCacheVars /\ InitFanVars
    /\ render \in BarInputs \cup BoardInputs
    /\ sse = NoListener
    /\ upd = NoUpdate
    /\ cycles = NoCycles

NextRender == ProgressBar \/ BuildSessionEmbeds

SpecRender == InitRender /\ [][NextRender]_vars

(***************************************************************************)
(* SpecListener: start_sse_listener of one client, after main fetched the  *)
(* server's identity, which left an active url or none.  SpecListenerLive  *)
(* is the listener of a program that is not shutting down, scheduled       *)
(* fairly.                                                                 *)
(***************************************************************************)
InitListener ==
    /\ InitBoardVars /\ InitCacheVars
    /\ active_url \in {None} \cup {Some(trim_end_matches(u)) : u \in Uris}
    /\ fw = IdleFw
    /\ sessions = [s \in Sources |-> <<>>]
    /\ listener = [s \in Sources |-> [pc |-> "init_fetch"]]
    /\ rx = [s \in Sources |-> NoReceiver]
    /\ aggregate_rx = NoReceiver
    /\ collect = NoCollect
    /\ news = FALSE
    /\ main = "run"
    /\ render = NoRender
    /\ sse \in {[NoListener EXCEPT !.pc = "init_poll", !.polls = 1, !.up = u] :
                   u \in BOOLEAN}
    /\ upd = NoUpdate
    /\ cycles = NoCycles

SpecListener == InitListener /\ [][NextListener]_vars

\* Every task that can run does, and every request is answered.
FairListener ==
    WF_vars(PollDone \/ LoopHead \/ (Resolving /\ Reachable /\ DirectListing)
                \/ Resolved \/ EventSourceNew(TRUE) \/ SleepDone
                \/ AfterStream)

SpecListenerLive == InitListener /\ [][NextSteady]_vars /\ FairListener

\* The listener with the shutdown: its requests are answered, and a select
\* entered again and again with the cancellation ready takes it at last.
FairListenerShutdown ==
    /\ WF_vars(PollDone \/ LoopHead \/ Resolving \/ Resolved
                \/ EventSourceNew(TRUE) \/ EventSourceNew(FALSE)
                \/ AfterStream)
    /\ SF_vars(SelectCancelled)

SpecListenerShutdownLive ==
    InitListener /\ [][NextListener]_vars /\ FairListenerShutdown

(***************************************************************************)
(* SpecUpdate: update_sessions of a client is called again and again, with *)
(* or without an active url, and update_loop's forwarder is subscribed.    *)
(***************************************************************************)
InitUpdate ==
    /\ InitBoardVars /\ InitCacheVars
    /\ active_url \in {None, Some(trim_end_matches([host |-> 1, slashes |-> 0]))}
    /\ fw = IdleFw
    /\ sessions = [s \in Sources |-> <<>>]
    /\ listener = [s \in Sources |-> [pc |-> "init_fetch"]]
    /\ rx = [s \in Sources |-> Subscribed]
    /\ aggregate_rx = Subscribed
    /\ collect = NoCollect
    /\ news = FALSE
    /\ main = "run"
    /\ render = NoRender
    /\ sse = NoListener
    /\ upd = [NoUpdate EXCEPT !.pc = "idle"]
    /\ cycles = NoCycles

SpecUpdate == InitUpdate /\ [][NextUpdate]_vars

(***************************************************************************)
(* SpecOverlap: the listener and commands call update_sessions of the same *)
(* client, one call each at a time.                                        *)
(***************************************************************************)
InitOverlap ==
    /\ InitBoardVars /\ InitResolverVars /\ InitCacheVars
    /\ sessions = [s \in Sources |-> <<>>]
    /\ listener = [s \in Sources |-> [pc |-> "init_fetch"]]
    /\ rx = [s \in Sources |-> Subscribed]
    /\ aggregate_rx = Subscribed
    /\ collect = NoCollect
    /\ news = FALSE
    /\ main = "run"
    /\ render = NoRender
    /\ sse = NoListener
    /\ upd = NoUpdate
    /\ cycles = NoCycles

SpecOverlap == InitOverlap /\ [][NextOverlap]_vars

(***************************************************************************)
(* SpecFanIn: the program starts with the Config it loaded, either none or *)
(* a board that exists.                                                    *)
(***************************************************************************)
LoadedBoard == [session_channel_id |-> Some(1), session_message_id |-> Some(1)]

InitFanIn ==
    /\ \/ config = ConfigDefault /\ msgChannel = <<>>
       \/ config = LoadedBoard /\ msgChannel = <<Some(1)>>
    /\ disk = config
    /\ deleted = {}
    /\ wakeups = 0
    /\ cancelled = FALSE
    /\ agg = [NoTick EXCEPT !.pc = "start"]
    /\ chanCmd = IdleChan
    /\ clearCmd = IdleClear
    /\ InitResolverVars
    /\ InitCacheVars
    /\ InitFanVars
    /\ render = NoRender
    /\ sse = NoListener
    /\ upd = NoUpdate
    /\ cycles = NoCycles

SpecFanIn == InitFanIn /\ [][NextFanIn]_vars

\* The scheduler runs a task that can run, and a request is answered.
FairFanIn ==
    /\ \A s \in Sources : WF_vars(Emit(s))
    /\ \A s \in Sources : WF_vars(Forward(s))
    /\ WF_vars(UpdateLoopStart \/ AggregateRecv \/ Collect \/ EditDone)

\* The program while no shutdown is requested.
SpecFanInLive == InitFanIn /\ [][NextRunning]_vars /\ FairFanIn

(***************************************************************************)
(* SpecShutdownLive: the listeners, update_loop and main from the start to *)
(* "Shutdown complete".  The forwarders are the wake-ups they pass on,     *)
(* which may arrive at any time.                                           *)
(***************************************************************************)
InitShutdown ==
    /\ \/ config = ConfigDefault /\ msgChannel = <<>>
       \/ config = set_session_channel(ConfigDefault, 1) /\ msgChannel = <<>>
       \/ config = LoadedBoard /\ msgChannel = <<Some(1)>>
    /\ disk = config
    /\ deleted = {}
    /\ wakeups = 0
    /\ cancelled = FALSE
    /\ agg = NoTick
    /\ chanCmd = IdleChan
    /\ clearCmd = IdleClear
    /\ InitResolverVars
    /\ InitCacheVars
    /\ InitFanVars
    /\ render = NoRender
    /\ sse = NoListener
    /\ upd = NoUpdate
    /\ cycles = NoCycles

NextShutdown ==
    \/ \E s \in Sources : Replace(s)
    \/ \E s \in Sources : Emit(s)
    \/ \E s \in Sources : Connect(s)
    \/ \E s \in Sources : StreamEvent(s)
    \/ \E s \in Sources : StreamEnd(s)
    \/ \E s \in Sources : ListenerShutdown(s)
    \/ Notify
    \/ TickRecv
    \/ EditDone
    \/ CreateOk
    \/ CreateErr
    \/ UpdateLoopShutdown
    \/ Cancel
    \/ JoinListeners
    \/ JoinUpdateLoop

\* The scheduler runs a task that can run, a request is answered, and a
\* select that is entered again and again with the cancellation among its
\* ready branches takes it at last.
FairShutdown ==
    /\ \A s \in Sources : WF_vars(Replace(s) \/ Emit(s))
    /\ \A s \in Sources : SF_vars(ListenerShutdown(s))
    /\ WF_vars(EditDone \/ CreateOk \/ CreateErr)
    /\ SF_vars(UpdateLoopShutdown)
    /\ WF_vars(JoinListeners \/ JoinUpdateLoop)

SpecShutdownLive == InitShutdown /\ [][NextShutdown]_vars /\ FairShutdown

(***************************************************************************)
(* Properties of SpecBoard                                                 *)
(***************************************************************************)
\* A step in which update_loop takes a wake-up and starts a tick.
TickStarts == agg.pc = "wait" /\ wakeups' = wakeups - 1

\* C1: under any interleaving of a tick with the set-channel command, a
\* persisted message id refers to a message created in the persisted
\* channel, and no edit is issued in a channel for a message that was created
\* in another channel.
C1_MessageInPersistedChannel ==
    /\ IsSome(config.session_message_id) =>
          /\ Unwrap(config.session_message_id) \in 1..Len(msgChannel)
          /\ msgChannel[Unwrap(config.session_message_id)]
                = config.session_channel_id
    /\ agg.pc = "edit" =>
          msgChannel[Unwrap(agg.writes[1].message)] = agg.writes[1].channel

\* C2: the step in which set_session_channel(c) completes leaves the Config
\* with channel-id = c and no message-id, whatever it held before, and the
\* file with the same, or as it was when the save failed.
C2_SetChannelResetsBoard ==
    [][(chanCmd.pc = "idle" /\ chanCmd'.pc = "trigger") =>
          /\ IsSome(chanCmd'.channel)
          /\ config' = [session_channel_id |-> chanCmd'.channel,
                        session_message_id |-> None]
          /\ disk' \in {config', disk}]_vars

\* set_session_channel(c) has just completed on a Config that held channel c
\* and a message id.
C2_Witness ==
    /\ chanCmd.pc = "trigger"
    /\ IsSome(chanCmd.before.session_message_id)
    /\ chanCmd.before.session_channel_id = chanCmd.channel
    /\ config = [session_channel_id |-> chanCmd.channel,
                 session_message_id |-> None]

\* C8: a tick that finds no destination channel issues no chat request,
\* writes no configuration, and leaves update_loop waiting for the next
\* wake-up.
C8_NoChannelTickIsNoOp ==
    /\ [](agg.cfg.session_channel_id = None =>
              agg.writes = <<>> /\ agg.pc \in {"wait", "stopped"})
    /\ [][(TickStarts /\ config.session_channel_id = None) =>
              /\ agg'.pc = "wait"
              /\ agg'.writes = <<>>
              /\ UNCHANGED <<config, disk, msgChannel, deleted>>]_vars

\* A tick has run without a channel while a wake-up was consumed.
C8_Witness ==
    /\ agg.result = "skipped"
    /\ agg.pc = "wait"
    /\ config.session_channel_id = None
    /\ wakeups = 0

\* C9: a tick that reads a Config with a channel issues exactly one chat
\* request in that channel, an edit of the message id it read if there is
\* one and a create otherwise; the tick reads the current Config, and the
\* step that completes a successful create persists the new message's id.
C9_OneWritePerTick ==
    /\ [](agg.result # "none" /\ IsSome(agg.cfg.session_channel_id) =>
            /\ Len(agg.writes) = 1
            /\ agg.writes[1].channel = agg.cfg.session_channel_id
            /\ agg.writes[1].message = agg.cfg.session_message_id
            /\ agg.writes[1].kind =
                 IF IsSome(agg.cfg.session_message_id) THEN "edit" ELSE "create")
    /\ [][TickStarts => agg'.cfg = config]_vars
    /\ [][(agg.pc = "create" /\ agg'.result = "ok") =>
            /\ Len(msgChannel') = Len(msgChannel) + 1
            /\ config'.session_message_id = Some(Len(msgChannel'))]_vars

\* A tick is editing the message an earlier tick created.
C9_Witness ==
    /\ agg.pc = "edit"
    /\ Len(msgChannel) = 1
    /\ agg.writes = <<[kind |-> "edit", channel |-> msgChannel[1],
                       message |-> Some(1)]>>
    /\ config.session_message_id = Some(1)

\* C10: the step in which an edit fails changes neither the Config nor the
\* file and returns update_loop to waiting, and update_loop has a create in
\* flight, or gets a message created, only while no message id is persisted.
C10_FailedEditKeepsMessage ==
    /\ [][(agg.pc = "edit" /\ agg'.result = "err") =>
            /\ UNCHANGED <<config, disk>>
            /\ agg'.pc = "wait"]_vars
    /\ [](agg.pc = "create" => config.session_message_id = None)
    /\ [][Len(msgChannel') > Len(msgChannel) =>
            config.session_message_id = None]_vars

\* An edit has failed and the message id it was aimed at is still persisted.
C10_Witness ==
    /\ agg.pc = "wait"
    /\ agg.result = "err"
    /\ Len(agg.writes) = 1
    /\ agg.writes[1].kind = "edit"
    /\ IsSome(config.session_message_id)
    /\ config.session_message_id = agg.writes[1].message

\* C21 (SpecRestart): under any interleaving of ticks with the set-channel
\* and clear commands, the Config in memory and the Config in the file hold a
\* message id only together with a channel id.
C21_MessageImpliesChannel ==
    /\ IsSome(config.session_message_id) => IsSome(config.session_channel_id)
    /\ IsSome(disk.session_message_id) => IsSome(disk.session_channel_id)

\* C31: between the steps of the mutators, each of which holds the write
\* lock from its assignment to the return of its save, the Config that
\* readers get equals the Config in the file.
C31_MemoryEqualsDisk == config = disk

\* C32: handle_clear asks for a deletion only when a message id is
\* persisted, and the step in which its delete request returns changes the
\* Config or the file only when the message was deleted: after a failed
\* deletion both are as they were.
C32_ClearOnlyAfterDelete ==
    /\ [](clearCmd.pc = "delete" => IsSome(clearCmd.message))
    /\ [][(clearCmd.pc = "delete" /\ clearCmd'.pc = "idle"
                /\ deleted' = deleted) =>
            UNCHANGED <<config, disk>>]_vars

\* C28: once the cancellation is triggered, update_loop takes no wake-up to
\* start a tick, although wake-ups may be pending, and no step issues a chat
\* request or has set_session_message write the Config.
C28_NoTickAfterCancel ==
    [][cancelled =>
          /\ ~TickStarts
          /\ Len(agg'.writes) > Len(agg.writes) => FALSE
          /\ Len(msgChannel') > Len(msgChannel) => FALSE]_vars

\* The chat request of the tick that ended last was a create and failed.
CreateFailed ==
    /\ agg.pc = "wait"
    /\ agg.result = "err"
    /\ agg.writes = <<ChatRequest("create", agg.cfg)>>

\* C29: the step in which an edit or a create fails returns update_loop to
\* waiting, where it can take the next wake-up; a failed create leaves the
\* Config and the file as they were, without a message id, and the tick
\* after it issues a create again when a channel is still configured.
C29_ChatErrorsKeepLoop ==
    /\ [][(agg.pc \in {"edit", "create"} /\ agg'.result = "err") =>
            agg'.pc = "wait"]_vars
    /\ []((agg.pc = "wait" /\ agg.result = "err" /\ wakeups > 0) =>
            ENABLED TickRecv)
    /\ [][(agg.pc = "create" /\ agg'.result = "err") =>
            /\ UNCHANGED <<config, disk, msgChannel>>
            /\ config'.session_message_id = None]_vars
    /\ [](CreateFailed => config.session_message_id = None)
    /\ [][(CreateFailed /\ TickStarts /\ IsSome(config.session_channel_id)) =>
            /\ agg'.pc = "create"
            /\ agg'.writes = <<ChatRequest("create", config)>>]_vars

\* A create has failed, no message id is persisted, and the next wake-up is
\* pending.
C29_Witness ==
    /\ CreateFailed
    /\ wakeups > 0
    /\ IsSome(config.session_channel_id)
    /\ config.session_message_id = None

(***************************************************************************)
(* Properties of SpecFanIn and SpecFanInLive                               *)
(***************************************************************************)
\* The listener of s is between the replacement of its snapshot and the
\* notification of it.
Emitting(s) == listener[s].pc \in {"init_emit", "emit"}

\* A step in which the listener of s sends its notification.
Emits(s) == Emitting(s) /\ listener'[s] # listener[s]

\* A step in which update_loop receives from the aggregate channel.
TickBegins ==
    /\ agg.pc = "wait"
    /\ CanRecv(aggregate_rx)
    /\ aggregate_rx' = AfterRecv(aggregate_rx)

\* The snapshots a client can hold: the empty one it starts with, or a
\* fetched list with every session stamped with the client's name.
Snapshots(s) ==
    {[i \in 1..Len(Unwrap(res)) |->
         [title |-> Unwrap(res)[i].title, server_name |-> ServerNames[s]]] :
       res \in FetchResults \ {None}}

\* C11: while the program runs, a listener about to notify can always send
\* and a forwarder with something to receive can always forward, however
\* full the channels are; no listener, forwarder or update loop ever ends;
\* a forwarder that receives a lag indication forwards a notification and
\* update_loop that receives one begins a tick; and after a burst that
\* overflowed the channel of a subscribed forwarder, or the aggregate
\* channel, update_loop begins a tick later than the burst.
C11_OverflowTolerantFanIn ==
    /\ [](\A s \in Sources :
            /\ Emitting(s) => ENABLED Emit(s)
            /\ CanRecv(rx[s]) => ENABLED Forward(s)
            /\ rx[s].state # "dropped"
            /\ listener[s].pc # "stopped")
    /\ [](agg.pc # "stopped")
    /\ [][\A s \in Sources :
            (rx[s].lagged /\ ~rx'[s].lagged) =>
                /\ rx'[s].state = "open"
                /\ rx'[s].pending = Capacity
                /\ aggregate_rx' = send(aggregate_rx)]_vars
    /\ [][(aggregate_rx.lagged /\ ~aggregate_rx'.lagged) =>
            /\ agg.pc = "wait"
            /\ agg'.cfg = config
            /\ agg'.pc = IF IsSome(config.session_channel_id) THEN "collect"
                         ELSE "wait"
            /\ ~news']_vars
    /\ (news /\ \E s \in Sources : rx[s].lagged) ~> ~news
    /\ aggregate_rx.lagged ~> ~aggregate_rx.lagged

\* A burst overflowed the channel of a client's forwarder, and a tick that
\* began after the last notification of the burst is collecting.
C11_Witness ==
    /\ \E s \in Sources : rx[s].lagged
    /\ ~news
    /\ agg.pc = "collect"

\* C12: while the program runs, once a snapshot was replaced with the
\* forwarders subscribed, update_loop begins a tick later than that; and a
\* tick that finds a channel configured reads, after it began, the snapshot
\* every client then holds, and gets to its chat request.
C12_LatestWins ==
    /\ news ~> ~news
    /\ [][\A s \in Sources :
            (sessions'[s] # sessions[s] /\ rx[s].state = "open") => news']_vars
    /\ [][TickBegins =>
            /\ ~news'
            /\ IsSome(config.session_channel_id) =>
                  agg'.pc = "collect" /\ collect' = NoCollect]_vars
    /\ [][(agg.pc = "collect" /\ collect' # collect) =>
            LET i == Len(collect.server_names) + 1
                n == Len(collect.all_sessions)
            IN /\ i \in Sources
               /\ Len(collect'.server_names) = i
               /\ SubSeq(collect'.all_sessions, n + 1,
                         Len(collect'.all_sessions)) = sessions[i]]_vars
    /\ [](agg.pc \in {"edit", "create"} =>
            Len(collect.server_names) = Len(ServerNames))
    /\ (agg.pc = "collect") ~> (agg.pc \in {"edit", "create"})

\* A tick that began after the last replacement has read both clients'
\* snapshots, while the aggregate channel had overflowed.
C12_Witness ==
    /\ agg.pc = "edit"
    /\ ~news
    /\ aggregate_rx.lagged
    /\ Len(collect.all_sessions) = 4
    /\ collect.all_sessions = sessions[1] \o sessions[2]

\* C13: a snapshot changes only in the step in which its client's fetch
\* succeeds, to exactly a fetched list with every session stamped with the
\* client's name, and that step sends nothing; the listener then sends one
\* notification, in a step that leaves the snapshots alone; a failed fetch
\* changes and sends nothing; and a snapshot is always a whole fetched list
\* that update_loop reads whole.
C13_AtomicReplaceThenNotify ==
    /\ [][\A s \in Sources :
            sessions'[s] # sessions[s] =>
                /\ listener[s].pc \in {"init_fetch", "fetch"}
                /\ listener'[s].pc \in {"init_emit", "emit"}
                /\ sessions'[s] \in Snapshots(s)
                /\ \A t \in Sources \ {s} : sessions'[t] = sessions[t]
                /\ rx' = rx]_vars
    /\ [][\A s \in Sources :
            (listener[s].pc \in {"init_fetch", "fetch"}
                /\ listener'[s] # listener[s]) =>
                /\ rx' = rx
                /\ listener'[s].pc \in {"connect", "stream"} =>
                      sessions' = sessions]_vars
    /\ [][\A s \in Sources :
            (/\ rx[s].state = "open"
             /\ rx'[s].state = "open"
             /\ \/ rx'[s].pending > rx[s].pending
                \/ (rx'[s].lagged /\ ~rx[s].lagged))
              => Emits(s)]_vars
    /\ [][\A s \in Sources :
            Emits(s) =>
                /\ sessions' = sessions
                /\ rx'[s] = send(rx[s])
                /\ listener'[s].pc \in {"connect", "stream"}]_vars
    /\ [](\A s \in Sources : sessions[s] \in Snapshots(s))
    /\ [][(agg.pc = "collect" /\ collect' # collect) =>
            collect'.all_sessions
              = collect.all_sessions \o sessions[Len(collect.server_names) + 1]]_vars

\* A client's snapshot was replaced by a stamped list of two sessions and
\* its forwarder has not been notified yet.
C13_Witness ==
    \E s \in Sources :
        /\ listener[s].pc = "emit"
        /\ Len(sessions[s]) = 2
        /\ \A i \in 1..2 : sessions[s][i].server_name = ServerNames[s]
        /\ rx[s] = Subscribed

\* C14: a listener about to notify can send, whether its channel has no
\* receiver, a receiver with room or a receiver whose buffer is full, and
\* the send leaves the listener going on as after any update: without a
\* receiver nothing is kept, a full buffer is marked as lagging.
C14_EmitNeverBlocks ==
    /\ [](\A s \in Sources : Emitting(s) => ENABLED Emit(s))
    /\ [][\A s \in Sources :
            Emits(s) =>
                /\ listener'[s].pc = AfterUpdate(listener[s].pc)
                /\ rx[s].state # "open" => rx'[s] = rx[s]
                /\ (rx[s].state = "open" /\ rx[s].pending = Capacity) =>
                      rx'[s] = [rx[s] EXCEPT !.lagged = TRUE]
                /\ (rx[s].state = "open" /\ rx[s].pending < Capacity) =>
                      rx'[s] = [rx[s] EXCEPT !.pending = rx[s].pending + 1]]_vars

\* One listener has sent into a full buffer and gone on, another is about
\* to send with its forwarder gone.
C14_Witness ==
    /\ rx[1].lagged
    /\ listener[1].pc = "stream"
    /\ listener[2].pc = "emit"
    /\ rx[2].state = "dropped"

\* C24: every source's forwarder is subscribed before that source's first
\* emission: a listener that is about to send the notification of its
\* start-time update_sessions has a receiver of update_loop on its channel,
\* so that the notification reaches the aggregator.
C24_SubscribedBeforeFirstEmit ==
    \A s \in Sources :
        listener[s].pc = "init_emit" => rx[s].state = "open"

\* C15: once the cancellation is triggered, no step replaces a snapshot and
\* no listener sends a notification.
C15_NoPublishAfterCancel ==
    [][cancelled =>
          /\ sessions' = sessions
          /\ \A s \in Sources : ~Emits(s)]_vars

\* C16: when main reports "Shutdown complete", every listener, update_loop
\* and every forwarder has ended.
C16_AllTasksJoined ==
    main = "complete" =>
        /\ \A s \in Sources : listener[s].pc = "stopped"
        /\ agg.pc = "stopped"
        /\ \A s \in Sources : rx[s].state = "dropped"

\* Under SpecListenerShutdownLive: wherever start_sse_listener is when the
\* cancellation is triggered (in its first poll, resolving, in a sleep,
\* creating the EventSource, in the event loop, in a poll), it returns.
ListenerStops == cancelled ~> sse.pc = "stopped"

\* C34: once the cancellation is triggered, wherever the tasks are, every
\* listener and update_loop end and main reports "Shutdown complete".
C34_ShutdownCompletes ==
    cancelled ~>
        /\ \A s \in Sources : listener[s].pc = "stopped"
        /\ agg.pc = "stopped"
        /\ main = "complete"

\* The cancellation was triggered with a tick waiting for its edit, one
\* listener waiting for its fetch and the other in its event loop.
C34_Witness ==
    /\ cancelled
    /\ agg.pc = "edit"
    /\ listener[1].pc = "fetch"
    /\ listener[2].pc = "stream"
    /\ main = "run"

\* C17: every round of a tick's loop appends the snapshot of the next
\* client in registration order, whole and in order, and that client's
\* name; the chat request is issued with one name per client in
\* registration order, and with the sessions grouped by client in that
\* order.
C17_ConcatenationInSourceOrder ==
    /\ [][(agg.pc = "collect" /\ collect' # collect) =>
            LET i == Len(collect.server_names) + 1
            IN /\ collect'.all_sessions = collect.all_sessions \o sessions[i]
               /\ collect'.server_names
                    = Append(collect.server_names, ServerNames[i])
               /\ agg'.pc # "collect" <=> i = Len(ServerNames)]_vars
    /\ [](agg.pc \in {"edit", "create"} =>
            /\ collect.server_names = ServerNames
            /\ \E n \in 0..Len(collect.all_sessions) :
                 /\ SubSeq(collect.all_sessions, 1, n) \in Snapshots(1)
                 /\ SubSeq(collect.all_sessions, n + 1,
                           Len(collect.all_sessions)) \in Snapshots(2))

\* A tick issued its request with two sessions of the first client followed
\* by two of the second.
C17_Witness ==
    /\ agg.pc = "edit"
    /\ collect.server_names = ServerNames
    /\ Len(collect.all_sessions) = 4
    /\ collect.all_sessions[2].server_name = ServerNames[1]
    /\ collect.all_sessions[3].server_name = ServerNames[2]

(***************************************************************************)
(* Properties of SpecListener and SpecListenerLive                         *)
(***************************************************************************)
\* The listener is connected: waiting for an event, or polling after one.
Streaming == sse.pc \in {"stream", "poll"}

\* A step in which a probe of find_working_url fails and ends the call.
ProbeFailsLast ==
    /\ Len(fw'.probes) > Len(fw.probes)
    /\ ~fw'.probes[Len(fw'.probes)].ok
    /\ fw'.pc = "done"

\* A step in which update_sessions returns after fetch_sessions failed.
PollFails == sse.pc \in {"init_poll", "poll"} /\ sse'.note = "fetch failed"

\* A step in which the listener leaves the stream for the named reasons.
StreamEnds(why) == sse.pc = "stream" /\ sse'.note \in why

\* The Message events among the events received.
MessagesIn(log) == {i \in 1..Len(log) : log[i] \in Messages}

\* C22: a step in which a liveness probe fails and ends the resolution, in
\* which a session poll fails, or in which the stream gives an error, leaves
\* active_url at None.
C22_FailureInvalidatesEndpoint ==
    [][(ProbeFailsLast \/ PollFails \/ StreamEnds({"error"}))
          => active_url' = None]_vars

C26_StreamLossForcesRediscovery ==
    /\ [][StreamEnds({"timeout", "error", "end"}) =>
            active_url' = None /\ sse'.pc = "after_stream"]_vars
    /\ [](sse.pc \in {"after_stream", "sleep5"} => active_url = None)
    /\ [][(sse.pc = "after_stream" /\ sse'.pc # "after_stream" /\ ~cancelled)
            => sse'.pc = "sleep5"]_vars
    /\ [][(sse.pc = "sleep5" /\ sse'.pc # "sleep5" /\ ~cancelled)
            => sse'.pc = "loop_head" /\ active_url' = None]_vars
    /\ [][(sse.pc = "loop_head" /\ sse'.pc = "resolve") =>
            /\ fw'.cached = active_url
            /\ active_url = None => fw'.pc = "discover"]_vars

\* After a stream with an event was lost, the listener has asked for the
\* candidates without a probe of a cached url.
C26_Witness ==
    /\ sse.pc = "resolve"
    /\ Len(sse.log) > 0
    /\ fw.cached = None
    /\ fw.queries = 1
    /\ ~cancelled

\* C27: the update_sessions calls of the listener are the one at the start
\* and one for every Message received, whatever its name; an Open starts
\* none; and an event is taken only while no update_sessions is in flight,
\* so no call starts while another runs.
C27_OnePollPerMessage ==
    /\ [](sse.pc # "none" =>
            sse.polls = 1 + Cardinality(MessagesIn(sse.log)))
    /\ [][Len(sse'.log) > Len(sse.log) =>
            /\ sse.pc = "stream"
            /\ Len(sse'.log) = Len(sse.log) + 1
            /\ sse'.pc = IF sse'.log[Len(sse'.log)] \in Messages THEN "poll"
                         ELSE "stream"]_vars
    /\ [][sse'.polls # sse.polls =>
            sse.pc = "stream" /\ sse'.pc = "poll"
               /\ sse'.polls = sse.polls + 1]_vars

\* The listener is waiting for the next event after an Open and a Message,
\* with the Message's update_sessions done.
C27_Witness ==
    /\ sse.pc = "stream"
    /\ sse.log = <<"open", "activity">>
    /\ sse.polls = 2
    /\ sse.note = "updated"

(***************************************************************************)
(* Properties of SpecUpdate                                                *)
(***************************************************************************)
\* A step in which fetch_sessions returns Err to update_sessions.
FetchFails ==
    /\ upd.pc = "idle"
    /\ upd'.calls = upd.calls + 1
    /\ upd'.note = "fetch failed"

\* C23: the step in which the fetch of an update_sessions call fails,
\* without an active url or by the answer, changes neither the snapshot nor
\* the artwork cache, sends no notification and starts no enrichment, and
\* leaves the caller where it can call update_sessions again; without an
\* active url the fetch can only fail.
C23_FailedFetchChangesNothing ==
    /\ [][FetchFails =>
            /\ UNCHANGED <<sessions, artwork_cache, stored, rx, enr>>
            /\ upd'.pc = "idle"]_vars
    /\ [][(upd.pc = "idle" /\ upd' # upd /\ active_url = None) =>
            FetchFails]_vars
    /\ []((upd.pc = "idle" /\ upd.calls < MaxUpdates) => ENABLED FetchReturned)

\* A fetch failed after an update had published a session with artwork: the
\* snapshot, the cache entry and the unread notification are still there.
C23_Witness ==
    /\ upd.pc = "idle"
    /\ upd.note = "fetch failed"
    /\ upd.calls > 1
    /\ Len(sessions[1]) > 0
    /\ IsSome(sessions[1][1].art_url)
    /\ \E k \in Keys : IsSome(artwork_cache[k])
    /\ rx[1].pending = 1

\* C30: while the fetched list is enriched no session is dropped, and the
\* step that replaces the snapshot stores a list as long as the fetched one
\* with, at every position, the fetched session under the server's name and
\* with the artwork its enrichment ended with: none when the enrichment had
\* no TMDB id or no media path, and none when the catalog gave none.
C30_EverySessionPublished ==
    /\ [](upd.pc \in {"enrich", "enriching", "replace"} =>
            /\ Len(upd.work) = Len(upd.fetched)
            /\ Len(upd.results) <= Len(upd.fetched))
    /\ [][(upd.pc = "replace" /\ upd'.pc = "idle") =>
            /\ Len(upd.results) = Len(upd.fetched)
            /\ Len(sessions'[1]) = Len(upd.fetched)
            /\ \A i \in 1..Len(sessions'[1]) :
                  /\ i <= Len(upd.fetched)
                  /\ sessions'[1][i] =
                        [upd.fetched[i] EXCEPT
                            !.server_name = server_name(1),
                            !.art_url = upd.results[i].art_url]
                  /\ upd.results[i].ending = "none" =>
                        sessions'[1][i].art_url = None]_vars
    /\ [][(upd.pc = "enriching" /\ enr["sse"].pc = "metadata"
                /\ enr'["sse"].pc = "done" /\ enr'["sse"].key = None) =>
            enr'["sse"].art_url = None]_vars
    /\ [][(upd.pc = "enriching" /\ enr["sse"].pc = "fetch"
                /\ enr'["sse"].pc = "done"
                /\ stored'[Unwrap(enr["sse"].key)]
                      = Some([value |-> None, timestamp |-> now])) =>
            enr'["sse"].art_url = None]_vars

\* A snapshot of two sessions was published: the first got artwork from the
\* catalog, the enrichment of the second ended without a cache key.
C30_Witness ==
    /\ upd.pc = "idle"
    /\ upd.note = "updated"
    /\ Len(upd.fetched) = 2
    /\ Len(sessions[1]) = 2
    /\ upd.results[1].ending = "fetched"
    /\ IsSome(sessions[1][1].art_url)
    /\ upd.results[2].ending = "none"
    /\ sessions[1][2].art_url = None

(***************************************************************************)
(* Properties of SpecOverlap                                               *)
(***************************************************************************)
\* C33: whenever no update_sessions call of the client is in flight, its
\* snapshot is the list of the answer the server gave last, under the
\* server's name.
C33_LatestAnswerStored ==
    InFlight = {} => sessions[1] = stamp(cycles.latest, server_name(1))

(***************************************************************************)
(* Properties of SpecRender                                                *)
(***************************************************************************)
\* build_session_embeds has returned / progress_bar has returned.
Rendered == render.fn = "build_session_embeds" /\ IsSome(render.out)
Drawn == render.fn = "progress_bar" /\ IsSome(render.out)

\* The embed shows the session: its title and its server, in a layout of a
\* session.
Shows(embed, session) ==
    /\ embed.description.layout # "plain"
    /\ session.title \in {embed.description.bold, embed.description.text}
    /\ embed.footer = Footer(None, session.server_name)

\* The embed is the "No active sessions" placeholder.
IsPlaceholder(embed) ==
    /\ embed.description.layout = "plain"
    /\ embed.description.text = "No active sessions"

\* The number of "#" of a bar.
Filled(bar) == Cardinality({i \in 1..Len(bar) : bar[i] = "#"})

\* C18: the rendered board has exactly one embed per session, in input order,
\* and no placeholder, whenever there is a session (the episode Foo 1x2
\* "Pilot" at 300 of 1200 as S1, E2, Pilot with a bar filled to 25%); it is
\* exactly one "No active sessions" placeholder when there is none, whose
\* footer is "<N> servers" for N # 1 sources and the server's name for one.
C18_OneEmbedPerSessionElsePlaceholder ==
    Rendered =>
        LET embeds == Unwrap(render.out)
            total == Len(render.sessions)
            N == Len(render.server_names)
            placeholders == {i \in 1..Len(embeds) : IsPlaceholder(embeds[i])}
        IN /\ total # 0 =>
                /\ Len(embeds) = total
                /\ placeholders = {}
                /\ \A i \in 1..total : Shows(embeds[i], render.sessions[i])
                /\ \A i \in 1..total :
                      render.sessions[i] = Episode =>
                          /\ embeds[i].description.bold = "Foo"
                          /\ embeds[i].description.season = Some(1)
                          /\ embeds[i].description.episode = Some(2)
                          /\ embeds[i].description.text = "Pilot"
                          /\ Unwrap(embeds[i].description.progress).percent
                                = Some(25)
           /\ total = 0 =>
                /\ Len(embeds) = 1
                /\ placeholders = {1}
                /\ embeds[1].footer =
                      IF N = 1 THEN Footer(None, render.server_names[1])
                      ELSE Footer(Some(N), "servers")

\* Two sources without a session have been rendered as the placeholder with
\* the footer "2 servers".
C18_Witness ==
    /\ Rendered
    /\ render.sessions = <<>>
    /\ Len(render.server_names) = 2
    /\ Len(Unwrap(render.out)) = 1
    /\ IsPlaceholder(Unwrap(render.out)[1])
    /\ Unwrap(render.out)[1].footer = Footer(Some(2), "servers")

\* C19: with a duration > 0 and an offset, also one beyond the duration, the
\* bar has floor(10 * min(offset, duration) / duration) filled segments
\* followed by empty ones, 10 in all, and the percent is
\* floor(100 * min(offset, duration) / duration); with no duration or a
\* duration of zero it has 10 empty segments and the placeholder percent.
C19_ProgressBarExact ==
    Drawn =>
        LET out == Unwrap(render.out)
            d == unwrap_or(render.duration, 0)
        IN /\ Len(out.bar) = 10
           /\ (d > 0 /\ IsSome(render.view_offset)) =>
                LET o == Unwrap(render.view_offset)
                    m == IF o < d THEN o ELSE d
                    filled == (10 * m) \div d
                IN /\ out.bar = repeat("#", filled) \o repeat("-", 10 - filled)
                   /\ out.percent = Some((100 * m) \div d)
           /\ d = 0 =>
                /\ Filled(out.bar) = 0
                /\ out.percent = None

(***************************************************************************)
(* Properties of SpecResolver                                              *)
(***************************************************************************)
\* The latest call read a cached url, and the probe of it failed / succeeded.
CachedProbeFailed ==
    IsSome(fw.cached) /\ Len(fw.probes) >= 1 /\ ~fw.probes[1].ok
CachedProbeOk ==
    IsSome(fw.cached) /\ Len(fw.probes) >= 1 /\ fw.probes[1].ok

\* The probes of the latest call's rediscovery, in the order made.
DiscoveryProbes ==
    SubSeq(fw.probes, (IF IsSome(fw.cached) THEN 2 ELSE 1), Len(fw.probes))

\* The listed connections, every non-local one before any local one, each
\* class in listed order, without the trailing '/'.
RemoteThenLocal(cs) ==
    LET remote == SelectSeq(cs, LAMBDA c : ~c.local)
        local == SelectSeq(cs, LAMBDA c : c.local)
    IN [i \in 1..Len(cs) |->
          [host |-> (IF i <= Len(remote) THEN remote[i]
                     ELSE local[i - Len(remote)]).uri.host,
           slashes |-> 0]]

\* C3: a call whose probe of the cached url failed goes on to query the
\* candidate list, and returns a url only when the last probe of that
\* rediscovery was of that url and succeeded.
C3_StaleEndpointNotReturned ==
    CachedProbeFailed =>
        /\ fw.pc \in {"discover", "probe", "done"}
        /\ fw.pc = "discover" => fw.queries = 0
        /\ fw.pc \in {"probe", "done"} => fw.queries = 1
        /\ (fw.pc = "done" /\ IsSome(fw.result)) =>
              /\ Len(fw.probes) >= 2
              /\ fw.probes[Len(fw.probes)]
                    = [url |-> Unwrap(fw.result), ok |-> TRUE]

\* A call returned another url than the cached one, whose probe failed.
C3_Witness ==
    /\ CachedProbeFailed
    /\ fw.pc = "done"
    /\ IsSome(fw.result)
    /\ fw.result # fw.cached

\* C4: a call whose probe of the cached url succeeded has returned that url
\* with no discovery query and no other probe, and the step that ends it
\* leaves active_url as it was, the cached url.
C4_CachedEndpointReturned ==
    /\ [](CachedProbeOk =>
            /\ fw.pc = "done"
            /\ fw.result = fw.cached
            /\ fw.queries = 0
            /\ fw.probes = <<[url |-> Unwrap(fw.cached), ok |-> TRUE]>>)
    /\ [][(fw.pc = "probe_cached" /\ fw'.pc # "probe_cached"
              /\ fw'.probes[1].ok) =>
            /\ active_url' = active_url
            /\ active_url' = fw'.result]_vars

\* A call returned the cached url after a successful probe.
C4_Witness ==
    /\ CachedProbeOk
    /\ fw.pc = "done"
    /\ active_url = fw.cached
    /\ fw.result = fw.cached

\* C5: the probes of a rediscovery follow the candidates, non-local before
\* local, all but the last one failed; the call goes on while candidates are
\* left and none answered; it returns none exactly when all candidates (or
\* none at all) were probed and none answered, and otherwise the url of the
\* last probe, which answered and is recorded as active_url by that step.
C5_RemoteFirstUntilSuccess ==
    /\ [](fw.queries >= 1 =>
            LET P == DiscoveryProbes
                E == RemoteThenLocal(fw.listing.connections)
                allFailed == \A i \in 1..Len(P) : ~P[i].ok
            IN /\ fw.queries = 1
               /\ Len(P) <= Len(E)
               /\ \A i \in 1..Len(P) : P[i].url = E[i]
               /\ \A i \in 1..(Len(P) - 1) : ~P[i].ok
               /\ fw.pc \in {"probe", "done"}
               /\ fw.pc = "probe" => (allFailed /\ Len(P) < Len(E))
               /\ fw.pc = "done" =>
                    /\ fw.result = None <=> (allFailed /\ Len(P) = Len(E))
                    /\ IsSome(fw.result) =>
                          P[Len(P)] = [url |-> Unwrap(fw.result), ok |-> TRUE])
    /\ [][(fw.pc = "probe" /\ fw'.pc = "done" /\ IsSome(fw'.result)) =>
            active_url' = fw'.result]_vars

\* A rediscovery probed a non-local candidate listed after a local one first,
\* then the local one, which answered.
C5_Witness ==
    /\ fw.pc = "done"
    /\ fw.queries = 1
    /\ Len(fw.listing.connections) = 2
    /\ fw.listing.connections[1].local
    /\ ~fw.listing.connections[2].local
    /\ Len(DiscoveryProbes) = 2
    /\ ~DiscoveryProbes[1].ok
    /\ fw.result = Some([host |-> fw.listing.connections[1].uri.host,
                         slashes |-> 0])
    /\ fw.listing.connections[1].uri.host # fw.listing.connections[2].uri.host
    /\ active_url = fw.result

\* C20: when a call whose probe of the cached url failed has returned,
\* active_url is no longer that url, unless the rediscovery selected it again
\* after a probe of it that succeeded; so too when the rediscovery found no
\* url that answers and the call returned None.
C20_FailedEndpointCleared ==
    (fw.pc = "done" /\ CachedProbeFailed) =>
        \/ active_url # fw.cached
        \/ /\ Len(fw.probes) >= 2
           /\ fw.probes[Len(fw.probes)]
                 = [url |-> Unwrap(fw.cached), ok |-> TRUE]

(***************************************************************************)
(* Properties of SpecCache                                                 *)
(***************************************************************************)
\* The TTL in ticks of the clock.
TtlTicks == CACHE_TTL_SECS * TicksPerSec

\* A step in which caller c's enrich_artwork looks its key up in the cache.
Looks(c) ==
    /\ enr[c].pc \in {"idle", "done", "metadata"}
    /\ IsSome(enr'[c].key)
    /\ enr'[c] # enr[c]

\* C6: a lookup of key k made less than 3600 s after a value (a url or
\* explicit none) was last stored for k ends the call with that value as the
\* session's art_url and without a catalog request; a lookup made 3600 s or
\* more after the store, like one of a key never stored, goes to the catalog.
C6_CacheRoundTrip ==
    [][\A c \in Callers :
          Looks(c) =>
            LET k == Unwrap(enr'[c].key)
            IN IF IsSome(stored[k])
                  /\ now - Unwrap(stored[k]).timestamp < TtlTicks
               THEN /\ enr'[c].pc = "done"
                    /\ enr'[c].art_url = Unwrap(stored[k]).value
                    /\ enr'[c].requests = 0
               ELSE /\ enr'[c].pc = "fetch"
                    /\ enr'[c].art_url = None
                    /\ enr'[c].requests = 1]_vars

\* A call was served an explicit none that was stored one tick less than
\* 3600 s earlier.
C6_Witness ==
    \E c \in Callers :
        /\ enr[c].pc = "done"
        /\ enr[c].requests = 0
        /\ enr[c].art_url = None
        /\ IsSome(enr[c].key)
        /\ IsSome(stored[Unwrap(enr[c].key)])
        /\ Unwrap(stored[Unwrap(enr[c].key)]).value = None
        /\ now - Unwrap(stored[Unwrap(enr[c].key)]).timestamp = TtlTicks - 1

\* An entry of the cache that is less than 3600 s old.
Unexpired(k) ==
    /\ IsSome(artwork_cache[k])
    /\ now - Unwrap(artwork_cache[k]).timestamp < TtlTicks

\* C7: a call issues a catalog request only in its lookup step and only when
\* the cache holds no unexpired entry for the key (an entry recording none
\* counts); a lookup that finds none issues exactly one, and the step in
\* which the answer arrives stores it under the key with the current time
\* and makes it the session's art_url.
C7_OneFetchPerMiss ==
    /\ [](\A c \in Callers :
            /\ enr[c].requests \in {0, 1}
            /\ enr[c].pc = "fetch" => enr[c].requests = 1
            /\ enr[c].pc \in {"idle", "metadata"} => enr[c].requests = 0)
    /\ [][\A c \in Callers :
            Looks(c) =>
              /\ Unexpired(Unwrap(enr'[c].key)) =>
                    enr'[c].pc = "done" /\ enr'[c].requests = 0
              /\ ~Unexpired(Unwrap(enr'[c].key)) =>
                    enr'[c].pc = "fetch" /\ enr'[c].requests = 1]_vars
    /\ [][\A c \in Callers :
            (enr[c].pc = "fetch" /\ enr'[c].pc # "fetch") =>
              /\ enr'[c].pc = "done"
              /\ enr'[c].requests = 1
              /\ artwork_cache'[Unwrap(enr[c].key)]
                    = Some([value |-> enr'[c].art_url, timestamp |-> now])]_vars

\* A call made 3600 s or more after the start fetched once and stored an
\* explicit none with the current time.
C7_Witness ==
    \E c \in Callers :
        /\ enr[c].pc = "done"
        /\ enr[c].requests = 1
        /\ enr[c].art_url = None
        /\ now >= TtlTicks
        /\ artwork_cache[Unwrap(enr[c].key)]
              = Some([value |-> None, timestamp |-> now])

====
